---- MODULE Spec2Model ----
(***************************************************************************)
(* State-machine model of the parallel filtered chunk write of             *)
(* HDF5_MT_Concurrency: the blocking queue (queue.c), the worker pool      *)
(* (threadpool.c), the filter resolver and the filter pipeline (H5Z.c),    *)
(* and one call of the write entry point that drives them.                 *)
(***************************************************************************)
EXTENDS Integers, Sequences, FiniteSets, TLC

(* ------------------------------ bounds -------------------------------- *)
\* largest number of chunks N of one call
MaxChunks == 3
\* largest number of worker threads T of one call
MaxThreads == 2
\* largest number of entries of the filter pipeline
MaxFilters == 1
\* raw size Braw of a chunk buffer, in bytes
ChunkBytes == 4
\* longest value of the environment variable H5_NTHREADS, in characters
MaxEnvLen == 3
\* width of size_t in bits (scaled down: sums and products wrap at 2^SizeBits)
SizeBits == 6
\* the ceiling Tmax on the number of workers (scaled down with size_t)
Tmax == 8
\* largest pline->nused of a pipeline handed to H5Z_pipeline on its own
MaxPline == 2
\* how many more times than T a producer calls queue_add(q, NULL)
MaxExtraCloses == 2
\* slots the filter table is allocated in (32 in the library's public header)
H5Z_MAX_NFILTERS == 3
\* client data values a pipeline entry holds in its own _cd_values array (4 in
\* the library's private header); longer ones go to a block of their own
H5Z_COMMON_CD_VALUES == 1

(* ----------------------------- constants ------------------------------ *)
SUCCEED == 0
FAIL == -1
\* the NULL pointer (queue nodes and work items are numbered from 1)
NULL == 0
\* the indeterminate content of malloc'ed memory that was never assigned
INDET == -1
\* largest filter id, first id free for applications, version of H5Z_class2_t
\* (the values of the library's public header)
H5Z_FILTER_MAX == 65535
H5Z_FILTER_RESERVED == 256
H5Z_CLASS_T_VERS == 1
\* thread id of the calling (producer) thread; workers are 1..T
MAIN == 0
\* thread id of a thread that calls queue_get_elmts_added
OBS == -2

\* a pipeline entry: filter id and the H5Z_FLAG_OPTIONAL bit of its flags
FilterEntries == [id : {"DEFLATE", "LZ4", "OTHER"}, optional : BOOLEAN]
DlStatus == {"ok", "nolib", "nosym"}
PluginPathEnv == {"unset", "/opt/plugin"}

Max(a, b) == IF a > b THEN a ELSE b

RECURSIVE SeqsUpTo(_, _)
SeqsUpTo(S, n) ==
    IF n = 0 THEN {<<>>}
    ELSE LET shorter == SeqsUpTo(S, n - 1)
         IN  shorter \cup {Append(s, x) : s \in {t \in shorter : Len(t) = n - 1}, x \in S}

(* --------------------------- thread count ----------------------------- *)
\* the characters H5_NTHREADS is made of, as their ASCII codes:
\* ' ', '+', '0', '1', '9', 'a'
EnvChars == {32, 43, 48, 49, 57, 97}
\* what getenv("H5_NTHREADS") finds: nothing (set = FALSE), or a string
EnvValues == [set : BOOLEAN, str : SeqsUpTo(EnvChars, MaxEnvLen)]
SizeMod == 2 ^ SizeBits

\* mutant: the fallback nthreads = 1 after the diagnostic is missing
RECURSIVE get_thread_count_nofallback_loop(_, _, _)
get_thread_count_nofallback_loop(env, env_idx, nthreads) ==
    IF ~env.set \/ env_idx >= Len(env.str) THEN [ret |-> nthreads, stderr |-> <<>>]
    ELSE LET n == ((IF env_idx = 0 THEN 0 ELSE nthreads) * 10) % SizeMod
             tmp_add == env.str[env_idx + 1] - 48
         IN  IF tmp_add < 0 \/ tmp_add > 9
             THEN [ret |-> n, stderr |-> <<"H5_NTHREADS not valid.">>]
             ELSE get_thread_count_nofallback_loop(env, env_idx + 1, (n + tmp_add) % SizeMod)

get_thread_count_nofallback(env) == get_thread_count_nofallback_loop(env, 0, 1)

\* the while loop of get_thread_count from character env_idx on: the loop ends
\* when getenv returns NULL or at the terminating NUL; nthreads is a size_t
RECURSIVE get_thread_count_loop(_, _, _)
get_thread_count_loop(env, env_idx, nthreads) ==
    IF ~env.set \/ env_idx >= Len(env.str) THEN [ret |-> nthreads, stderr |-> <<>>]
    ELSE LET n == ((IF env_idx = 0 THEN 0 ELSE nthreads) * 10) % SizeMod
             tmp_add == env.str[env_idx + 1] - 48
         IN  IF tmp_add < 0 \/ tmp_add > 9
             THEN [ret |-> 1, stderr |-> <<"H5_NTHREADS not valid.">>]
             ELSE get_thread_count_loop(env, env_idx + 1, (n + tmp_add) % SizeMod)

\* get_thread_count: the value returned and what was written to stderr
get_thread_count(env) == get_thread_count_loop(env, 0, 1)

(* ------------------------- filter resolver ---------------------------- *)
\* H5Z__get_filter_lib_path: library file name and symbol of a plugin filter
H5Z__get_filter_lib_path(filter_id) ==
    CASE filter_id = "LZ4"  -> [ret_value |-> SUCCEED, filter_lib_name |-> "/libh5lz4.so.0",
                                filter_symbol |-> "H5Z_LZ4"]
      [] filter_id = "ZSTD" -> [ret_value |-> SUCCEED, filter_lib_name |-> "/libh5zstd.so.0",
                                filter_symbol |-> "H5Z_ZSTD"]
      [] OTHER              -> [ret_value |-> FAIL, filter_lib_name |-> "", filter_symbol |-> ""]

\* getenv("HDF5_PLUGIN_PATH"), or the built-in directory when it is not set
PluginPath(env) == IF env = "unset" THEN "/usr/local/hdf5/lib/plugin" ELSE env

LibNames == {"/libh5lz4.so.0", "/libh5zstd.so.0"}
\* the files dlopen may be asked for, and what the loader finds there
LibPaths == {<<PluginPath(e), l>> : e \in PluginPathEnv, l \in LibNames}
FileSystems == [LibPaths -> DlStatus]

\* dlopen(lib_path, RTLD_LAZY): a handle, or NULL when the file is not found
dlopen(fs, lib_path) == IF fs[lib_path] = "nolib" THEN "NULL" ELSE "handle"
\* dlsym(handle, filter_symbol): the symbol, or NULL when it is not exported
dlsym(fs, lib_path, filter_symbol) == IF fs[lib_path] = "ok" THEN filter_symbol ELSE "NULL"

\* loop body of H5Z__assign_filter for positions i..nused; syms is h5z_symbol[]
RECURSIVE assign_filter_loop(_, _, _, _, _)
assign_filter_loop(syms, pipeline, plugin_path, fs, i) ==
    IF i > Len(pipeline) THEN [ret_value |-> SUCCEED, h5z_symbol |-> syms]
    ELSE LET p == H5Z__get_filter_lib_path(pipeline[i].id)
             lib_path == <<plugin_path, p.filter_lib_name>>
             sym == dlsym(fs, lib_path, p.filter_symbol)
         IN  IF p.ret_value = FAIL
             THEN IF pipeline[i].id = "DEFLATE"
                  THEN assign_filter_loop([syms EXCEPT ![i] = "H5Z_DEFLATE"], pipeline,
                                          plugin_path, fs, i + 1)
                  ELSE [ret_value |-> FAIL, h5z_symbol |-> syms]
             ELSE IF dlopen(fs, lib_path) = "NULL"
                  THEN [ret_value |-> FAIL, h5z_symbol |-> syms]
                  ELSE IF sym = "NULL"
                       THEN [ret_value |-> FAIL, h5z_symbol |-> [syms EXCEPT ![i] = sym]]
                       ELSE assign_filter_loop([syms EXCEPT ![i] = sym], pipeline,
                                               plugin_path, fs, i + 1)

\* mutant: the error exits leave ret_value at SUCCEED
H5Z__assign_filter_noerr(syms, pipeline, mode, env, fs) ==
    [assign_filter_loop(syms, pipeline, PluginPath(env), fs, 1) EXCEPT !.ret_value = SUCCEED]

\* mutant: the plugin directory is the built-in one whatever the environment
H5Z__assign_filter_defaultdir(syms, pipeline, mode, env, fs) ==
    IF mode = "w" THEN assign_filter_loop(syms, pipeline, PluginPath("unset"), fs, 1)
    ELSE [ret_value |-> SUCCEED, h5z_symbol |-> syms]

\* H5Z__assign_filter(h5z_symbol, pipeline, mode): fills h5z_symbol in mode 'w'
H5Z__assign_filter(syms, pipeline, mode, env, fs) ==
    IF mode = "w" THEN assign_filter_loop(syms, pipeline, PluginPath(env), fs, 1)
    ELSE [ret_value |-> SUCCEED, h5z_symbol |-> syms]

(* --------------------------- filter pipeline -------------------------- *)
\* the number a filter id stands for (H5Z_filter_t): the ids of the library's
\* public header and of the plugins, the first id free for applications, and
\* the two numbers next to the valid range
H5Z_filter_t(id) ==
    CASE id = "NEGATIVE" -> -1
      [] id = "DEFLATE"  -> 1
      [] id = "SHUFFLE"  -> 2
      [] id = "OTHER"    -> H5Z_FILTER_RESERVED
      [] id = "LZ4"      -> 32004
      [] id = "ZSTD"     -> 32015
      [] id = "TOOBIG"   -> H5Z_FILTER_MAX + 1

\* the process-wide table of registered filters, as their ids in table order
VARIABLE H5Z_table_g

\* a chunk buffer: the chunk whose data it holds and the encodings applied to it
RawBuffer(c) == [data |-> c, enc |-> <<>>]

\* the encodings a chunk carries when the filters of pline ran on it except at
\* the positions in mask
RECURSIVE enc_from(_, _, _)
enc_from(pline, mask, i) ==
    IF i >= Len(pline) THEN <<>>
    ELSE (IF i \in mask THEN <<>> ELSE <<pline[i + 1].id>>) \o enc_from(pline, mask, i + 1)

\* chunk c as a write stored it with the failure mask given
StoredBuffer(pline, mask, c) == [data |-> c, enc |-> enc_from(pline, mask, 0)]

\* the filter callable of a filter class, (fclass->filter)(flags, cd_nelmts,
\* cd_values, nbytes, buf_size, buf): returns 0 on failure and leaves the buffer
\* alone, else the new byte count; a filter that grows the buffer replaces it
\* and updates buf_size.  zero says whether the filter fails on this chunk.
FilterCall(id, zero, nbytes, buf_size, buf) ==
    IF zero THEN [new_nbytes |-> 0, buf_size |-> buf_size, buf |-> buf]
    ELSE LET n == CASE id = "DEFLATE" -> Max(1, nbytes - 1)
                    [] id = "ZSTD"    -> Max(1, nbytes - 2)
                    [] OTHER          -> nbytes + 1
         IN  [new_nbytes |-> n, buf_size |-> Max(buf_size, n),
              buf |-> [buf EXCEPT !.enc = Append(@, id)]]

\* a filter class (H5Z_class2_t): its id and its filter callable; the classes
\* of the library and of the plugins name their callable after the filter
FilterClass(id) == [id |-> id, filter |-> id]
\* what a NULL class pointer stands for
NullClass == [id |-> "NULL", filter |-> "NULL"]
\* the table whose entries are the classes of the ids given, in this order
TableOf(ids) == [i \in 1 .. Len(ids) |-> FilterClass(ids[i])]

\* H5Z__find_idx: offset of the id in the table of registered filters, or FAIL
RECURSIVE find_idx_from(_, _, _)
find_idx_from(table, id, i) ==
    IF i >= Len(table) THEN FAIL
    ELSE IF table[i + 1].id = id THEN i ELSE find_idx_from(table, id, i + 1)

H5Z__find_idx(table, id) == find_idx_from(table, id, 0)

\* mutant: H5Z_register puts every class behind the used entries
H5Z_register_append(table, cls) == Append(table, cls)

\* H5Z_register(cls) on the used entries of H5Z_table_g: a class whose id is in
\* the table replaces the old contents in place, a new one is put behind the
\* used entries (the table is extended first, see H5Z_table_alloc)
H5Z_register(table, cls) ==
    LET i == H5Z__find_idx(table, cls.id)
    IN  IF i >= 0 THEN [table EXCEPT ![i + 1] = cls] ELSE Append(table, cls)

\* H5Z_table_alloc_g after H5Z_register(cls): a class that is not in the table
\* and finds every slot used has the table reallocated to
\* MAX(H5Z_MAX_NFILTERS, 2 * H5Z_table_alloc_g) slots
H5Z_table_alloc(table, alloc, cls) ==
    IF H5Z__find_idx(table, cls.id) < 0 /\ Len(table) >= alloc
    THEN Max(H5Z_MAX_NFILTERS, 2 * alloc)
    ELSE alloc

\* mutant: H5Z__unregister removes the entry whoever uses the filter
H5Z__unregister_inuse(table, filter_id, found) ==
    LET filter_index == find_idx_from(table, filter_id, 0)
    IN  IF filter_index < 0 THEN [ret_value |-> FAIL, table |-> table]
        ELSE [ret_value |-> SUCCEED,
              table |-> SubSeq(table, 1, filter_index)
                            \o SubSeq(table, filter_index + 2, Len(table))]

\* H5Z__unregister(filter_id): fails when the filter is not registered or when
\* an open dataset or group still uses it, else moves the later entries down by one
H5Z__unregister(table, filter_id, found) ==
    LET filter_index == H5Z__find_idx(table, filter_id)
    IN  IF filter_index < 0 \/ found THEN [ret_value |-> FAIL, table |-> table]
        ELSE [ret_value |-> SUCCEED,
              table |-> SubSeq(table, 1, filter_index)
                            \o SubSeq(table, filter_index + 2, Len(table))]

\* the same callable invoked with H5Z_FLAG_REVERSE: it undoes the encoding the
\* filter applied last, and returns 0 on data that does not end in its encoding
FilterCallReverse(id, zero, nbytes, buf_size, buf) ==
    IF zero \/ buf.enc = <<>> \/ buf.enc[Len(buf.enc)] # id
    THEN [new_nbytes |-> 0, buf_size |-> buf_size, buf |-> buf]
    ELSE LET n == CASE id = "DEFLATE" -> nbytes + 1
                    [] id = "ZSTD"    -> nbytes + 2
                    [] OTHER          -> Max(1, nbytes - 1)
         IN  [new_nbytes |-> n, buf_size |-> Max(buf_size, n),
              buf |-> [buf EXCEPT !.enc = SubSeq(@, 1, Len(@) - 1)]]

\* the invocation flags of H5Z_pipeline, as the set of the bits that are set
H5Z_FLAG_REVERSE == "H5Z_FLAG_REVERSE"

\* H5PL_load(H5PL_TYPE_FILTER, &key): the class of a plugin that can be loaded
\* for the id, or NULL; plugins is the set of the ids with a loadable plugin
H5PL_load(plugins, id) == IF id \in plugins THEN FilterClass(id) ELSE NullClass

\* one invocation of a filter callable as H5Z_pipeline sees it: the position,
\* *nbytes before, what the callable returned, *buf_size after it, and *nbytes
\* when the position is left
FilterInvocation(idx, nbytes, new_nbytes, buf_size, nbytes_out) ==
    [idx |-> idx, nbytes |-> nbytes, new_nbytes |-> new_nbytes, buf_size |-> buf_size,
     nbytes_out |-> nbytes_out]

\* mutant: a non-OPTIONAL filter returning 0 is handled as an OPTIONAL one is
RECURSIVE pipeline_write_loop_tolerant(_, _, _, _, _, _, _, _, _, _, _)
pipeline_write_loop_tolerant(pline, filter_mask, cb, table, zeros, idx, failed, nbytes, buf_size, buf, calls) ==
    LET e == pline[idx + 1]
        fclass_idx == H5Z__find_idx(table, e.id)
        r == FilterCall(table[fclass_idx + 1].filter, idx \in zeros, nbytes, buf_size, buf)
        called(n) == Append(calls, FilterInvocation(idx, nbytes, r.new_nbytes, r.buf_size, n))
        next(f, n, bs, b, cs) == pipeline_write_loop_tolerant(pline, filter_mask, cb, table,
                                                              zeros, idx + 1, f, n, bs, b, cs)
    IN  IF idx >= Len(pline)
        THEN [ret_value |-> SUCCEED, filter_mask |-> failed, nbytes |-> nbytes,
              buf_size |-> buf_size, buf |-> buf, failed |-> failed, calls |-> calls,
              table |-> table]
        ELSE IF idx \in filter_mask THEN next(failed \cup {idx}, nbytes, buf_size, buf, calls)
        ELSE IF fclass_idx < 0
             THEN IF ~e.optional
                  THEN [ret_value |-> FAIL, filter_mask |-> filter_mask, nbytes |-> nbytes,
                        buf_size |-> buf_size, buf |-> buf, failed |-> failed,
                        calls |-> calls, table |-> table]
                  ELSE next(failed \cup {idx}, nbytes, buf_size, buf, calls)
        ELSE IF r.new_nbytes = 0
             THEN next(failed \cup {idx}, nbytes, r.buf_size, r.buf, called(nbytes))
        ELSE next(failed, r.new_nbytes, r.buf_size, r.buf, called(r.new_nbytes))

\* mutant: a filter that is not registered fails the call, OPTIONAL or not
RECURSIVE pipeline_write_loop_strict(_, _, _, _, _, _, _, _, _, _, _)
pipeline_write_loop_strict(pline, filter_mask, cb, table, zeros, idx, failed, nbytes, buf_size, buf, calls) ==
    LET e == pline[idx + 1]
        fclass_idx == H5Z__find_idx(table, e.id)
        r == FilterCall(table[fclass_idx + 1].filter, idx \in zeros, nbytes, buf_size, buf)
        called(n) == Append(calls, FilterInvocation(idx, nbytes, r.new_nbytes, r.buf_size, n))
        next(f, n, bs, b, cs) == pipeline_write_loop_strict(pline, filter_mask, cb, table,
                                                              zeros, idx + 1, f, n, bs, b, cs)
    IN  IF idx >= Len(pline)
        THEN [ret_value |-> SUCCEED, filter_mask |-> failed, nbytes |-> nbytes,
              buf_size |-> buf_size, buf |-> buf, failed |-> failed, calls |-> calls,
              table |-> table]
        ELSE IF idx \in filter_mask THEN next(failed \cup {idx}, nbytes, buf_size, buf, calls)
        ELSE IF fclass_idx < 0
             THEN [ret_value |-> FAIL, filter_mask |-> filter_mask, nbytes |-> nbytes,
                   buf_size |-> buf_size, buf |-> buf, failed |-> failed,
                   calls |-> calls, table |-> table]
        ELSE IF r.new_nbytes = 0
             THEN IF ~e.optional
                  THEN IF cb = "none" \/ cb = "FAIL"
                       THEN [ret_value |-> FAIL, filter_mask |-> filter_mask,
                             nbytes |-> nbytes, buf_size |-> r.buf_size, buf |-> r.buf,
                             failed |-> failed, calls |-> called(nbytes), table |-> table]
                       ELSE next(failed \cup {idx}, r.buf_size, r.buf_size, r.buf,
                                 called(r.buf_size))
                  ELSE next(failed \cup {idx}, nbytes, r.buf_size, r.buf, called(nbytes))
        ELSE next(failed, r.new_nbytes, r.buf_size, r.buf, called(r.new_nbytes))

\* the write branch of H5Z_pipeline from position idx on.  pline is the sequence
\* pline->filter[0..nused), cb is cb_struct.func ("none" when NULL, else the value
\* it returns), zeros the positions whose filter returns 0 on this chunk; calls
\* lists the invocations of filter callables made so far.
RECURSIVE pipeline_write_loop(_, _, _, _, _, _, _, _, _, _, _)
pipeline_write_loop(pline, filter_mask, cb, table, zeros, idx, failed, nbytes, buf_size, buf, calls) ==
    LET e == pline[idx + 1]
        fclass_idx == H5Z__find_idx(table, e.id)
        r == FilterCall(table[fclass_idx + 1].filter, idx \in zeros, nbytes, buf_size, buf)
        called(n) == Append(calls, FilterInvocation(idx, nbytes, r.new_nbytes, r.buf_size, n))
        next(f, n, bs, b, cs) == pipeline_write_loop(pline, filter_mask, cb, table, zeros,
                                                     idx + 1, f, n, bs, b, cs)
    IN  IF idx >= Len(pline)
        THEN [ret_value |-> SUCCEED, filter_mask |-> failed, nbytes |-> nbytes,
              buf_size |-> buf_size, buf |-> buf, failed |-> failed, calls |-> calls,
              table |-> table]
        ELSE IF idx \in filter_mask THEN next(failed \cup {idx}, nbytes, buf_size, buf, calls)
        ELSE IF fclass_idx < 0
             THEN IF ~e.optional
                  THEN [ret_value |-> FAIL, filter_mask |-> filter_mask, nbytes |-> nbytes,
                        buf_size |-> buf_size, buf |-> buf, failed |-> failed,
                        calls |-> calls, table |-> table]
                  ELSE next(failed \cup {idx}, nbytes, buf_size, buf, calls)
        ELSE IF r.new_nbytes = 0
             THEN IF ~e.optional
                  THEN IF cb = "none" \/ cb = "FAIL"
                       THEN [ret_value |-> FAIL, filter_mask |-> filter_mask,
                             nbytes |-> nbytes, buf_size |-> r.buf_size, buf |-> r.buf,
                             failed |-> failed, calls |-> called(nbytes), table |-> table]
                       ELSE next(failed \cup {idx}, r.buf_size, r.buf_size, r.buf,
                                 called(r.buf_size))
                  ELSE next(failed \cup {idx}, nbytes, r.buf_size, r.buf, called(nbytes))
        ELSE next(failed, r.new_nbytes, r.buf_size, r.buf, called(r.new_nbytes))

\* the read branch of H5Z_pipeline: i runs from pline->nused down to 1, idx is
\* i - 1.  A filter that is not registered is loaded as a plugin and registered,
\* or the call fails; a filter returning 0 fails the call unless the callback
\* says to continue, whatever its flags.
RECURSIVE pipeline_read_loop(_, _, _, _, _, _, _, _, _, _, _, _)
pipeline_read_loop(pline, filter_mask, cb, table, zeros, plugins, i, failed, nbytes, buf_size, buf, calls) ==
    LET idx == i - 1
        e == pline[idx + 1]
        filter_info == H5PL_load(plugins, e.id)
        loaded == IF H5Z__find_idx(table, e.id) < 0 /\ filter_info # NullClass
                  THEN H5Z_register(table, filter_info) ELSE table
        fclass_idx == H5Z__find_idx(loaded, e.id)
        r == FilterCallReverse(loaded[fclass_idx + 1].filter, idx \in zeros, nbytes, buf_size, buf)
        called(n) == Append(calls, FilterInvocation(idx, nbytes, r.new_nbytes, r.buf_size, n))
        next(t, f, n, bs, b, cs) == pipeline_read_loop(pline, filter_mask, cb, t, zeros,
                                                       plugins, i - 1, f, n, bs, b, cs)
    IN  IF i <= 0
        THEN [ret_value |-> SUCCEED, filter_mask |-> failed, nbytes |-> nbytes,
              buf_size |-> buf_size, buf |-> buf, failed |-> failed, calls |-> calls,
              table |-> table]
        ELSE IF idx \in filter_mask
             THEN next(table, failed \cup {idx}, nbytes, buf_size, buf, calls)
        ELSE IF fclass_idx < 0
             THEN [ret_value |-> FAIL, filter_mask |-> filter_mask, nbytes |-> nbytes,
                   buf_size |-> buf_size, buf |-> buf, failed |-> failed, calls |-> calls,
                   table |-> loaded]
        ELSE IF r.new_nbytes = 0
             THEN IF cb = "none" \/ cb = "FAIL"
                  THEN [ret_value |-> FAIL, filter_mask |-> filter_mask, nbytes |-> nbytes,
                        buf_size |-> r.buf_size, buf |-> r.buf, failed |-> failed,
                        calls |-> called(nbytes), table |-> loaded]
                  ELSE next(loaded, failed \cup {idx}, r.buf_size, r.buf_size, r.buf,
                            called(r.buf_size))
        ELSE next(loaded, failed, r.new_nbytes, r.buf_size, r.buf, called(r.new_nbytes))

\* the body of H5Z_pipeline: the read branch when flags has H5Z_FLAG_REVERSE,
\* else the write branch (a NULL pline behaves as one with nused = 0)
pipeline_body(pline, flags, filter_mask, cb, nbytes, buf_size, buf, table, zeros, plugins) ==
    IF H5Z_FLAG_REVERSE \in flags
    THEN pipeline_read_loop(pline, filter_mask, cb, table, zeros, plugins, Len(pline), {},
                            nbytes, buf_size, buf, <<>>)
    ELSE pipeline_write_loop(pline, filter_mask, cb, table, zeros, 0, {}, nbytes, buf_size,
                             buf, <<>>)

\* mutant: the final *filter_mask = failed is missing
H5Z_pipeline_nomask(pline, flags, filter_mask, cb, nbytes, buf_size, buf, table, zeros, plugins) ==
    [pipeline_body(pline, flags, filter_mask, cb, nbytes, buf_size, buf, table, zeros, plugins)
        EXCEPT !.filter_mask = filter_mask]

\* mutant: a position excluded by the incoming mask is not recorded in failed
H5Z_pipeline_unrecorded(pline, flags, filter_mask, cb, nbytes, buf_size, buf, table, zeros, plugins) ==
    LET r == pipeline_body(pline, flags, filter_mask, cb, nbytes, buf_size, buf, table, zeros,
                           plugins)
    IN  IF r.ret_value = SUCCEED THEN [r EXCEPT !.filter_mask = @ \ filter_mask] ELSE r

\* mutant: H5Z_FLAG_REVERSE is ignored, the filters run in definition order
H5Z_pipeline_forward(pline, flags, filter_mask, cb, nbytes, buf_size, buf, table, zeros, plugins) ==
    pipeline_write_loop(pline, filter_mask, cb, table, zeros, 0, {}, nbytes, buf_size, buf, <<>>)

\* mutant: *filter_mask = failed is also done on the way out of a failed call
H5Z_pipeline_maskonfail(pline, flags, filter_mask, cb, nbytes, buf_size, buf, table, zeros, plugins) ==
    LET r == pipeline_body(pline, flags, filter_mask, cb, nbytes, buf_size, buf, table, zeros, plugins)
    IN  [r EXCEPT !.filter_mask = r.failed]

\* H5Z_pipeline(pline, flags, filter_mask, edc_read, cb_struct, nbytes, buf_size,
\* buf): the mask is a set of bit positions; on failure *filter_mask is left as
\* it was.  The result carries the out-parameters, the local failed, the filter
\* invocations made and H5Z_table_g as the call leaves it.
H5Z_pipeline(pline, flags, filter_mask, cb, nbytes, buf_size, buf, table, zeros, plugins) ==
    pipeline_body(pline, flags, filter_mask, cb, nbytes, buf_size, buf, table, zeros, plugins)

\* mutant: the resolved symbol is looked up in H5Z_table_g at every use
SymbolFilter_intable(sym) ==
    LET id == CASE sym = "H5Z_DEFLATE" -> "DEFLATE"
                [] sym = "H5Z_LZ4"     -> "LZ4"
                [] sym = "H5Z_ZSTD"    -> "ZSTD"
                [] OTHER               -> "NULL"
    IN  IF H5Z__find_idx(H5Z_table_g, id) >= 0 THEN id ELSE "NULL"

\* the filter class a resolved symbol points at
SymbolFilter(sym) ==
    CASE sym = "H5Z_DEFLATE" -> "DEFLATE"
      [] sym = "H5Z_LZ4"     -> "LZ4"
      [] sym = "H5Z_ZSTD"    -> "ZSTD"
      [] OTHER               -> "NULL"

\* the worker's per-chunk pipeline from position i on: a slot marked skip sets
\* its mask bit; a filter returning zero sets its mask bit and, unless OPTIONAL,
\* restores nbytes to the capacity and records a fatal pipeline condition
RECURSIVE worker_pipeline_loop(_, _, _, _, _, _, _, _, _)
worker_pipeline_loop(pipeline, syms, zeros, i, mask, nbytes, capacity, buffer, fatal) ==
    LET r == FilterCall(SymbolFilter(syms[i + 1]), i \in zeros, nbytes, capacity, buffer)
        next(m, n, cp, b, f) == worker_pipeline_loop(pipeline, syms, zeros, i + 1, m, n, cp, b, f)
    IN  IF i >= Len(pipeline)
        THEN [mask |-> mask, nbytes |-> nbytes, capacity |-> capacity, buffer |-> buffer,
              fatal |-> fatal]
        ELSE IF syms[i + 1] = "skip" THEN next(mask \cup {i}, nbytes, capacity, buffer, fatal)
        ELSE IF r.new_nbytes = 0
             THEN IF pipeline[i + 1].optional
                  THEN next(mask \cup {i}, nbytes, r.buf_size, r.buf, fatal)
                  ELSE next(mask \cup {i}, r.buf_size, r.buf_size, r.buf, TRUE)
        ELSE next(mask, r.new_nbytes, r.buf_size, r.buf, fatal)

WorkerPipeline(pipeline, syms, zeros, c) ==
    worker_pipeline_loop(pipeline, syms, zeros, 0, {}, ChunkBytes, ChunkBytes, RawBuffer(c), FALSE)

\* a whole call of H5Z_register(cls): the table stays as it is when it has to
\* grow and H5MM_realloc returns NULL (nomem)
H5Z_register_call(table, alloc, cls, nomem) ==
    IF H5Z__find_idx(table, cls.id) < 0 /\ Len(table) >= alloc /\ nomem
    THEN [ret_value |-> FAIL, table |-> table, alloc |-> alloc]
    ELSE [ret_value |-> SUCCEED, table |-> H5Z_register(table, cls),
          alloc |-> H5Z_table_alloc(table, alloc, cls)]

\* mutant: H5Z_filter_avail reports a loadable plugin without registering it
H5Z_filter_avail_unregistered(table, alloc, id, plugins, nomem) ==
    IF H5Z__find_idx(table, id) >= 0 \/ H5PL_load(plugins, id) # NullClass
    THEN [ret_value |-> 1, table |-> table, alloc |-> alloc]
    ELSE [ret_value |-> 0, table |-> table, alloc |-> alloc]

\* H5Z_filter_avail(id): true (1) for a registered filter; else the plugin is
\* loaded and registered; false (0) when there is none
H5Z_filter_avail(table, alloc, id, plugins, nomem) ==
    LET filter_info == H5PL_load(plugins, id)
        r == H5Z_register_call(table, alloc, filter_info, nomem)
    IN  IF H5Z__find_idx(table, id) >= 0
        THEN [ret_value |-> 1, table |-> table, alloc |-> alloc]
        ELSE IF filter_info # NullClass
             THEN IF r.ret_value < 0 THEN [r EXCEPT !.ret_value = FAIL]
                  ELSE [r EXCEPT !.ret_value = 1]
             ELSE [ret_value |-> 0, table |-> table, alloc |-> alloc]

\* a NULL class pointer
NullPointer == [struct |-> "NULL", id |-> "NULL", filter |-> "NULL"]

\* mutant: H5Zregister hands every class it is given to H5Z_register
H5Zregister_unchecked(table, alloc, cls, nodeprecated, nomem) ==
    H5Z_register_call(table, alloc, [id |-> cls.id, filter |-> cls.filter], nomem)

\* H5Zregister(cls): a struct whose first field is not H5Z_CLASS_T_VERS is an
\* H5Z_class1_t and is translated, or refused by a library built without the
\* deprecated symbols; then the id and the callable are checked
H5Zregister(table, alloc, cls, nodeprecated, nomem) ==
    LET rejected == [ret_value |-> FAIL, table |-> table, alloc |-> alloc]
        version == IF cls.struct = "H5Z_class2_t" THEN H5Z_CLASS_T_VERS
                   ELSE H5Z_filter_t(cls.id)
        cls_real == [id |-> cls.id, filter |-> cls.filter]
    IN  IF cls = NullPointer THEN rejected
        ELSE IF version # H5Z_CLASS_T_VERS /\ nodeprecated THEN rejected
        ELSE IF H5Z_filter_t(cls_real.id) < 0 \/ H5Z_filter_t(cls_real.id) > H5Z_FILTER_MAX
             THEN rejected
        ELSE IF H5Z_filter_t(cls_real.id) < H5Z_FILTER_RESERVED THEN rejected
        ELSE IF cls_real.filter = "NULL" THEN rejected
        ELSE H5Z_register_call(table, alloc, cls_real, nomem)

\* a whole call of H5Z__unregister(filter_id): the allocation stays
H5Z__unregister_call(table, alloc, filter_id, found) ==
    LET r == H5Z__unregister(table, filter_id, found)
    IN  [ret_value |-> r.ret_value, table |-> r.table, alloc |-> alloc]

\* H5Zunregister(id): the id is checked, then H5Z__unregister does the work
H5Zunregister(table, alloc, id, found) ==
    IF H5Z_filter_t(id) < 0 \/ H5Z_filter_t(id) > H5Z_FILTER_MAX
    THEN [ret_value |-> FAIL, table |-> table, alloc |-> alloc]
    ELSE IF H5Z_filter_t(id) < H5Z_FILTER_RESERVED
         THEN [ret_value |-> FAIL, table |-> table, alloc |-> alloc]
         ELSE H5Z__unregister_call(table, alloc, id, found)

(* ----------------------- editing a pipeline --------------------------- *)
\* An H5O_pline_t is [version, nused, nalloc, filter], filter being the array
\* of nalloc H5Z_filter_info_t slots.  A slot is [id, flags, cd_nelmts,
\* cd_values, data]: cd_values is the pointer, "NULL", "own" (the slot's own
\* _cd_values array), "heap" (a block of its own), "stale" (the _cd_values of
\* the place the struct was copied from), "~NULL" (the mark H5Z_append sets) or
\* "INDET" (never written); data is what the pointer leads to while it is
\* "own" or "heap".
H5O_PLINE_VERSION_1 == 1
H5Z_FILTER_ALL == "ALL"
\* a slot of memory realloc has added and nothing has written
GarbageSlot == [id |-> "INDET", flags |-> INDET, cd_nelmts |-> INDET, cd_values |-> "INDET",
                data |-> <<>>]
\* a slot after memset(.., 0, sizeof(H5Z_filter_info_t))
ZeroSlot == [id |-> "NONE", flags |-> 0, cd_nelmts |-> 0, cd_values |-> "NULL", data |-> <<>>]
\* a pipeline message that was just initialised
EmptyPline == [version |-> 0, nused |-> 0, nalloc |-> 0, filter |-> <<>>]

\* the client data the filter of a slot is given: cd_values[0 .. cd_nelmts - 1]
CdValues(slot) ==
    IF slot.cd_nelmts = 0 THEN <<>>
    ELSE IF slot.cd_values \in {"own", "heap"} THEN slot.data ELSE <<INDET>>
\* what entry idx of a pipeline says: its id, flags and client data
PlineEntry(pline, idx) ==
    [id |-> pline.filter[idx + 1].id, flags |-> pline.filter[idx + 1].flags,
     cd_values |-> CdValues(pline.filter[idx + 1])]
\* the used entries of a pipeline, in order
PlineEntries(pline) == [i \in 1 .. pline.nused |-> PlineEntry(pline, i - 1)]

\* a struct copied to another address: a pointer to the own array of the
\* original still leads to the original
CopiedSlot(slot) == IF slot.cd_values = "own" THEN [slot EXCEPT !.cd_values = "stale"] ELSE slot

\* for (idx = 0; idx < pline->nused; idx++) if (pline->filter[idx].id == filter) break;
RECURSIVE locate_from(_, _, _)
locate_from(pline, filter, idx) ==
    IF idx >= pline.nused THEN idx
    ELSE IF pline.filter[idx + 1].id = filter THEN idx ELSE locate_from(pline, filter, idx + 1)

\* the slot after "Allocate memory or point at internal buffer" and the copy of
\* the client data; malloc_null: H5MM_malloc returns NULL
SetParameters(slot, cd_values, malloc_null) ==
    IF Len(cd_values) > 0
    THEN IF Len(cd_values) > H5Z_COMMON_CD_VALUES
         THEN IF malloc_null THEN [slot EXCEPT !.cd_values = "NULL", !.data = <<>>]
              ELSE [slot EXCEPT !.cd_values = "heap", !.data = cd_values]
         ELSE [slot EXCEPT !.cd_values = "own", !.data = cd_values]
    ELSE [slot EXCEPT !.cd_values = "NULL", !.data = <<>>]
\* that step runs into "memory allocation failed"
SetParametersFails(cd_values, malloc_null) ==
    Len(cd_values) > H5Z_COMMON_CD_VALUES /\ malloc_null

\* H5Z_append: the filter array of nalloc slots reallocated to n slots, the
\* pointers marked before and set to the slots' own arrays after
ReallocFilters(pline, n) ==
    LET marked == [k \in 1 .. pline.nalloc |->
                      IF pline.filter[k].cd_values = "own"
                      THEN [pline.filter[k] EXCEPT !.cd_values = "~NULL"]
                      ELSE pline.filter[k]]
        moved == [k \in 1 .. n |-> IF k <= pline.nalloc THEN CopiedSlot(marked[k])
                                    ELSE GarbageSlot]
        fixed == [k \in 1 .. n |-> IF k <= pline.nalloc /\ moved[k].cd_values = "~NULL"
                                    THEN [moved[k] EXCEPT !.cd_values = "own"]
                                    ELSE moved[k]]
    IN  [marked |-> [pline EXCEPT !.filter = marked],
         done |-> [pline EXCEPT !.nalloc = n, !.filter = fixed]]

\* H5Z_append(pline, filter, flags, cd_nelmts, cd_values); env holds
\* "realloc_null" / "malloc_null" when H5MM_realloc / H5MM_malloc returns NULL
H5Z_append(pline, filter, flags, cd_values, env) ==
    LET versioned == IF pline.version = 0 THEN [pline EXCEPT !.version = H5O_PLINE_VERSION_1]
                     ELSE pline
        full == versioned.nused >= versioned.nalloc
        x == ReallocFilters(versioned, Max(H5Z_MAX_NFILTERS, 2 * versioned.nalloc))
        room == IF full THEN x.done ELSE versioned
        idx == room.nused
        named == [room.filter[idx + 1] EXCEPT !.id = filter, !.flags = flags,
                                              !.cd_nelmts = Len(cd_values)]
        set == SetParameters(named, cd_values, "malloc_null" \in env)
        stored == [room EXCEPT !.filter[idx + 1] = set]
    IN  IF pline.nused >= H5Z_MAX_NFILTERS THEN [ret_value |-> FAIL, pline |-> pline]
        ELSE IF full /\ "realloc_null" \in env THEN [ret_value |-> FAIL, pline |-> x.marked]
        ELSE IF SetParametersFails(cd_values, "malloc_null" \in env)
             THEN [ret_value |-> FAIL, pline |-> stored]
             ELSE [ret_value |-> SUCCEED, pline |-> [stored EXCEPT !.nused = @ + 1]]

\* H5Z_modify(pline, filter, flags, cd_nelmts, cd_values).  ub names the
\* undefined behaviour the call runs into: "bounds" a store to
\* pline->filter[idx] behind the allocated slots, "free" H5MM_xfree of a
\* pointer that was never written; pline is the pipeline if the call goes on
H5Z_modify(pline, filter, flags, cd_values, env) ==
    LET idx == locate_from(pline, filter, 0)
        old == pline.filter[idx + 1]
        changed == [old EXCEPT !.flags = flags, !.cd_nelmts = Len(cd_values)]
        set == SetParameters(changed, cd_values, "malloc_null" \in env)
        ret_value == IF SetParametersFails(cd_values, "malloc_null" \in env) THEN FAIL ELSE SUCCEED
    IN  IF idx > pline.nused THEN [ret_value |-> FAIL, pline |-> pline, ub |-> "none", idx |-> idx]
        ELSE IF idx >= pline.nalloc
             THEN [ret_value |-> ret_value, pline |-> pline, ub |-> "bounds", idx |-> idx]
             ELSE [ret_value |-> ret_value, pline |-> [pline EXCEPT !.filter[idx + 1] = set],
                   ub |-> IF old.cd_values \in {"INDET", "stale", "~NULL"} THEN "free" ELSE "none",
                   idx |-> idx]

\* H5O_msg_reset(H5O_PLINE_ID, pline): the filters are released
H5O_msg_reset(pline) == [EmptyPline EXCEPT !.version = H5O_PLINE_VERSION_1]

\* H5Z_delete: "Copy filters down & fix up any client data value arrays using
\* internal storage", from slot idx on
RECURSIVE copy_down(_, _)
copy_down(pline, idx) ==
    IF idx + 1 >= pline.nused THEN pline
    ELSE LET copied == CopiedSlot(pline.filter[idx + 2])
             fixed == IF copied.cd_nelmts <= H5Z_COMMON_CD_VALUES
                      THEN [copied EXCEPT !.cd_values = "own"] ELSE copied
         IN  copy_down([pline EXCEPT !.filter[idx + 1] = fixed], idx + 1)

\* H5Z_delete(pline, filter); reset_fails: H5O_msg_reset returns a negative
\* value.  ub is "free" when the cd_values pointer handed to H5MM_xfree is not
\* one an allocation returned
H5Z_delete(pline, filter, reset_fails) ==
    LET idx == locate_from(pline, filter, 0)
        found == idx < pline.nused
        down == copy_down(pline, idx)
    IN  IF pline.nused = 0 THEN [ret_value |-> SUCCEED, pline |-> pline, ub |-> "none"]
        ELSE IF H5Z_FILTER_ALL = filter
             THEN IF reset_fails THEN [ret_value |-> FAIL, pline |-> pline, ub |-> "none"]
                  ELSE [ret_value |-> SUCCEED, pline |-> H5O_msg_reset(pline), ub |-> "none"]
        ELSE IF ~found THEN [ret_value |-> FAIL, pline |-> pline, ub |-> "none"]
        ELSE [ret_value |-> SUCCEED,
              pline |-> [down EXCEPT !.nused = @ - 1, !.filter[pline.nused] = ZeroSlot],
              ub |-> IF pline.filter[idx + 1].cd_values \in {"INDET", "stale", "~NULL"}
                     THEN "free" ELSE "none"]

(* ------------------------------- state -------------------------------- *)
VARIABLES
    N,              \* number of chunks of the dataset (chunks are 1..N in extraction order)
    T,              \* number of worker threads of the call
    pipeline,       \* the dataset's filter pipeline, a sequence of FilterEntries
    buf_null,       \* the caller passed a null source buffer
    filter_zero,    \* pairs <<chunk, position>> on which the filter returns 0
    pc_main,        \* where the calling thread is in the write call
    next_chunk,     \* the chunk the extractor turns to next
    sent,           \* null sentinels enqueued so far
    status,         \* the value the call returns
    h5z_symbol,     \* the resolved filter array
    unresolved,     \* pipeline positions whose filter the environment cannot provide
    q_nelmts, q_elmts_added, q_head, q_tail,   \* struct queue
    q_lock,         \* threads holding q->lock
    q_wait,         \* threads blocked in pthread_cond_wait(&q->wait, ...)
    nodes,          \* the queue_item heap: node n carries work item n
    items,          \* work items: "none", "ready" (materialised), "freed"
    wpc,            \* where each worker is
    w_ret,          \* what the worker's last queue_get returned
    w_err,          \* the error a worker has detected, or "none"
    w_nil,          \* how many times queue_get returned NULL to the worker
    thread_ret,     \* what thread_start returned for the worker
    wt_calls,       \* calls of the write-through primitive, per chunk origin
    file,           \* the encoded chunk stored in the file, per chunk origin
    H5_NTHREADS,    \* the environment variable H5_NTHREADS
    tc,             \* a call of get_thread_count: where it is, its result, stderr
    pl_args,        \* the arguments of a call of H5Z_pipeline and the filter table
    pl_ret,         \* that call: where it is, its return value and its out-parameters
    obs,            \* a thread calling queue_get_elmts_added: where it is, its ret_val
    af_args,        \* the arguments of a call of H5Z__assign_filter and its environment
    af_ret,         \* that call: where it is, its return value and h5z_symbol
    H5Z_table_alloc_g,  \* the number of slots allocated for H5Z_table_g
    api,            \* the last call on the filter table: function, argument, result
    dcpl_pline,     \* the filter pipeline (H5O_pline_t) of a property list being edited
    edit            \* the last call that edited it: function, arguments, result

qvars == <<q_nelmts, q_elmts_added, q_head, q_tail, q_lock, q_wait, nodes>>
\* state outside the write call, which no thread of the call touches
tcvars == <<H5_NTHREADS, tc>>
plvars == <<pl_args, pl_ret>>
afvars == <<af_args, af_ret>>
apivars == <<H5Z_table_alloc_g, api>>
edvars == <<dcpl_pline, edit>>
envvars == <<tcvars, plvars, afvars, edvars, apivars, H5Z_table_g, obs>>
invars == <<N, T, pipeline, buf_null, filter_zero, envvars>>
mainvars == <<pc_main, next_chunk, sent, status, h5z_symbol, unresolved>>
workvars == <<w_err, w_nil, thread_ret>>
filevars == <<wt_calls, file>>
vars == <<invars, mainvars, qvars, items, wpc, w_ret, workvars, filevars>>
\* the state of the write call
callvars == <<N, T, pipeline, buf_null, filter_zero, mainvars, qvars, items, wpc, w_ret,
              workvars, filevars>>

Chunks == 1 .. MaxChunks
Workers == 1 .. MaxThreads

FreeNode == [next |-> INDET, held_item |-> INDET, live |-> FALSE]
NoChunk == [buf |-> RawBuffer(0), nbytes |-> 0, mask |-> {}]

\* get_thread_count has not been called
NoThreadCount == [pc |-> "start", ret |-> 0, stderr |-> <<>>]
\* H5Z_pipeline has not been called
NoPipelineArgs == [pline |-> <<>>, flags |-> {}, filter_mask |-> {}, cb |-> "none",
                   table |-> <<>>, zeros |-> {}, plugins |-> {}]
NoPipelineRun == [pc |-> "start", ret_value |-> SUCCEED, filter_mask |-> {}, nbytes |-> 0,
                  buf_size |-> 0, buf |-> RawBuffer(0), failed |-> {}, calls |-> <<>>,
                  table |-> <<>>]
PipelineIdle ==
    /\ pl_args = NoPipelineArgs
    /\ pl_ret = NoPipelineRun
ThreadCountIdle ==
    /\ H5_NTHREADS = [set |-> FALSE, str |-> <<>>]
    /\ tc = NoThreadCount
\* H5Z_table_g once H5Z_init has registered the internal filters
TableAtInit == TableOf(<<"DEFLATE">>)
\* no thread is in queue_get_elmts_added
NoObserver == [pc |-> "idle", ret_val |-> -1]
\* H5Z__assign_filter has not been called
NoAssignArgs == [pipeline |-> <<>>, mode |-> "w", env |-> "unset", fs |-> <<>>]
NoAssignRun == [pc |-> "start", ret_value |-> SUCCEED, h5z_symbol |-> <<>>]
AssignIdle ==
    /\ af_args = NoAssignArgs
    /\ af_ret = NoAssignRun
\* no public call on the filter table was made
NoApiCall == [fn |-> "none", struct |-> "none", id |-> "NULL", filter |-> "NULL", env |-> {},
              ret_value |-> SUCCEED, H5_NO_DEPRECATED_SYMBOLS |-> FALSE]
\* H5Z_init has registered the internal filters: the table was allocated once
TableApiIdle ==
    /\ H5Z_table_alloc_g = H5Z_MAX_NFILTERS
    /\ api = NoApiCall
\* no pipeline is being edited
NoEdit == [fn |-> "none", filter |-> "NULL", flags |-> 0, cd_values |-> <<>>, env |-> {},
           returned |-> TRUE, ret_value |-> SUCCEED, ub |-> "none", idx |-> 0]
EditIdle ==
    /\ dcpl_pline = EmptyPline
    /\ edit = NoEdit
\* the environment when it plays no part
EnvIdle ==
    /\ ThreadCountIdle
    /\ PipelineIdle
    /\ H5Z_table_g = TableAtInit
    /\ obs = NoObserver
    /\ EditIdle
    /\ AssignIdle
    /\ TableApiIdle

\* the state of a write call at its entry, for the inputs chosen
CallStart ==
    /\ pc_main = "entry"
    /\ next_chunk = 1
    /\ sent = 0
    /\ status = SUCCEED
    /\ h5z_symbol = [i \in 1 .. Len(pipeline) |-> "NULL"]
    /\ unresolved = {}
    /\ q_nelmts = 0
    /\ q_elmts_added = 0
    /\ q_head = NULL
    /\ q_tail = NULL
    /\ q_lock = {}
    /\ q_wait = {}
    /\ nodes = [n \in Chunks |-> FreeNode]
    /\ items = [c \in Chunks |-> "none"]
    /\ wpc = [w \in Workers |-> "start"]
    /\ w_ret = [w \in Workers |-> NULL]
    /\ w_err = [w \in Workers |-> "none"]
    /\ w_nil = [w \in Workers |-> 0]
    /\ thread_ret = [w \in Workers |-> 0]
    /\ wt_calls = [c \in Chunks |-> 0]
    /\ file = [c \in Chunks |-> NoChunk]

Init ==
    /\ EnvIdle
    /\ N \in 0 .. MaxChunks
    /\ T \in 1 .. MaxThreads
    /\ pipeline \in SeqsUpTo(FilterEntries, MaxFilters)
    /\ buf_null \in BOOLEAN
    /\ filter_zero \in {{}} \cup {{<<c, i>>} : c \in 1 .. N, i \in 0 .. Len(pipeline) - 1}
    /\ CallStart

(* ------------------------------- queue -------------------------------- *)
\* pthread_cond_signal(&q->wait): unblocks one thread waiting on the condition
cond_signal(pcs) ==
    IF q_wait = {} THEN q_wait' = q_wait /\ wpc' = pcs
    ELSE \E s \in q_wait : q_wait' = q_wait \ {s} /\ wpc' = [pcs EXCEPT ![s] = "woken"]

\* mutant: q_item->held_item is not assigned before the node is linked
queue_add_lock_noinit(t, item) ==
    /\ q_lock = {}
    /\ q_lock' = {t}
    /\ nodes' = IF item = NULL THEN nodes
                ELSE [nodes EXCEPT ![item] = [next |-> NULL, held_item |-> INDET, live |-> TRUE]]
    /\ UNCHANGED <<q_nelmts, q_elmts_added, q_head, q_tail, q_wait, wpc>>

\* queue_add up to and including pthread_mutex_lock: for an item, the node is
\* allocated and filled in first (node n is the one malloc returns for item n)
queue_add_lock(t, item) ==
    /\ q_lock = {}
    /\ q_lock' = {t}
    /\ nodes' = IF item = NULL THEN nodes
                ELSE [nodes EXCEPT ![item] = [next |-> NULL, held_item |-> item, live |-> TRUE]]
    /\ UNCHANGED <<q_nelmts, q_elmts_added, q_head, q_tail, q_wait, wpc>>

\* mutant: an item added to a non-empty queue replaces the list instead of
\* being linked behind the tail
queue_add_locked_lost(t, item) ==
    /\ t \in q_lock
    /\ q_lock' = q_lock \ {t}
    /\ cond_signal(wpc)
    /\ IF item = NULL
       THEN /\ q_nelmts' = -1
            /\ UNCHANGED <<q_elmts_added, q_head, q_tail, nodes>>
       ELSE /\ q_head' = item
            /\ q_tail' = item
            /\ q_nelmts' = IF q_head = NULL THEN 1 ELSE q_nelmts + 1
            /\ q_elmts_added' = q_elmts_added + 1
            /\ UNCHANGED nodes

\* mutant: an item is pushed at the head of the list (LIFO)
queue_add_locked_lifo(t, item) ==
    /\ t \in q_lock
    /\ q_lock' = q_lock \ {t}
    /\ cond_signal(wpc)
    /\ IF item = NULL
       THEN /\ q_nelmts' = -1
            /\ UNCHANGED <<q_elmts_added, q_head, q_tail, nodes>>
       ELSE /\ nodes' = [nodes EXCEPT ![item].next = q_head]
            /\ q_head' = item
            /\ q_tail' = IF q_head = NULL THEN item ELSE q_tail
            /\ q_nelmts' = IF q_head = NULL THEN 1 ELSE q_nelmts + 1
            /\ q_elmts_added' = q_elmts_added + 1

\* mutant: the sentinel branch does not call pthread_cond_signal
queue_add_locked_nosignal(t, item) ==
    /\ t \in q_lock
    /\ q_lock' = q_lock \ {t}
    /\ IF item = NULL
       THEN /\ q_nelmts' = -1
            /\ UNCHANGED <<q_elmts_added, q_head, q_tail, nodes, q_wait, wpc>>
       ELSE /\ cond_signal(wpc)
            /\ IF q_head = NULL
               THEN /\ q_head' = item
                    /\ q_tail' = item
                    /\ q_nelmts' = 1
                    /\ q_elmts_added' = q_elmts_added + 1
                    /\ UNCHANGED nodes
               ELSE /\ nodes' = [nodes EXCEPT ![q_tail].next = item]
                    /\ q_tail' = item
                    /\ q_nelmts' = q_nelmts + 1
                    /\ q_elmts_added' = q_elmts_added + 1
                    /\ UNCHANGED q_head

\* mutant: an item added to a non-empty queue is linked right behind the head
queue_add_locked_afterhead(t, item) ==
    /\ t \in q_lock
    /\ q_lock' = q_lock \ {t}
    /\ cond_signal(wpc)
    /\ IF item = NULL
       THEN /\ q_nelmts' = -1
            /\ UNCHANGED <<q_elmts_added, q_head, q_tail, nodes>>
       ELSE IF q_head = NULL
            THEN /\ q_head' = item
                 /\ q_tail' = item
                 /\ q_nelmts' = 1
                 /\ q_elmts_added' = q_elmts_added + 1
                 /\ UNCHANGED nodes
            ELSE /\ nodes' = [nodes EXCEPT ![item].next = nodes[q_head].next,
                                           ![q_head].next = item]
                 /\ q_tail' = IF q_tail = q_head THEN item ELSE q_tail
                 /\ q_nelmts' = q_nelmts + 1
                 /\ q_elmts_added' = q_elmts_added + 1
                 /\ UNCHANGED q_head

\* mutant: a sentinel enqueued on a closed queue opens it again (nelmts = 0)
queue_add_locked_reopen(t, item) ==
    /\ t \in q_lock
    /\ q_lock' = q_lock \ {t}
    /\ cond_signal(wpc)
    /\ IF item = NULL
       THEN /\ q_nelmts' = IF q_nelmts < 0 THEN 0 ELSE -1
            /\ UNCHANGED <<q_elmts_added, q_head, q_tail, nodes>>
       ELSE IF q_head = NULL
            THEN /\ q_head' = item
                 /\ q_tail' = item
                 /\ q_nelmts' = 1
                 /\ q_elmts_added' = q_elmts_added + 1
                 /\ UNCHANGED nodes
            ELSE /\ nodes' = [nodes EXCEPT ![q_tail].next = item]
                 /\ q_tail' = item
                 /\ q_nelmts' = q_nelmts + 1
                 /\ q_elmts_added' = q_elmts_added + 1
                 /\ UNCHANGED q_head

\* mutant: an item added to an empty list sets elmts_added to 1, as it does nelmts
queue_add_locked_recount(t, item) ==
    /\ t \in q_lock
    /\ q_lock' = q_lock \ {t}
    /\ cond_signal(wpc)
    /\ IF item = NULL
       THEN /\ q_nelmts' = -1
            /\ UNCHANGED <<q_elmts_added, q_head, q_tail, nodes>>
       ELSE IF q_head = NULL
            THEN /\ q_head' = item
                 /\ q_tail' = item
                 /\ q_nelmts' = 1
                 /\ q_elmts_added' = 1
                 /\ UNCHANGED nodes
            ELSE /\ nodes' = [nodes EXCEPT ![q_tail].next = item]
                 /\ q_tail' = item
                 /\ q_nelmts' = q_nelmts + 1
                 /\ q_elmts_added' = q_elmts_added + 1
                 /\ UNCHANGED q_head

\* queue_add from the lock to the return: the sentinel sets nelmts to -1, an
\* item is linked at the tail; then signal and unlock
queue_add_locked(t, item) ==
    /\ t \in q_lock
    /\ q_lock' = q_lock \ {t}
    /\ cond_signal(wpc)
    /\ IF item = NULL
       THEN /\ q_nelmts' = -1
            /\ UNCHANGED <<q_elmts_added, q_head, q_tail, nodes>>
       ELSE IF q_head = NULL
            THEN /\ q_head' = item
                 /\ q_tail' = item
                 /\ q_nelmts' = 1
                 /\ q_elmts_added' = q_elmts_added + 1
                 /\ UNCHANGED nodes
            ELSE /\ nodes' = [nodes EXCEPT ![q_tail].next = item]
                 /\ q_tail' = item
                 /\ q_nelmts' = q_nelmts + 1
                 /\ q_elmts_added' = q_elmts_added + 1
                 /\ UNCHANGED q_head

\* mutant: queue_get_elmts_added goes on without waiting for the mutex
queue_get_elmts_added_lock_nowait(t) ==
    /\ q_lock' = q_lock \cup {t}
    /\ obs' = [obs EXCEPT !.pc = "locked"]
    /\ UNCHANGED <<q_nelmts, q_elmts_added, q_head, q_tail, q_wait, nodes>>

\* queue_get_elmts_added: ret_val = -1, pthread_mutex_lock
queue_get_elmts_added_lock(t) ==
    /\ q_lock = {}
    /\ q_lock' = {t}
    /\ obs' = [obs EXCEPT !.pc = "locked"]
    /\ UNCHANGED <<q_nelmts, q_elmts_added, q_head, q_tail, q_wait, nodes>>

\* queue_get_elmts_added: read elmts_added, unlock, return
queue_get_elmts_added_locked(t) ==
    /\ t \in q_lock
    /\ q_lock' = q_lock \ {t}
    /\ obs' = [pc |-> "idle", ret_val |-> q_elmts_added]
    /\ UNCHANGED <<q_nelmts, q_elmts_added, q_head, q_tail, q_wait, nodes>>

\* queue_get: pthread_mutex_lock, on entry or when pthread_cond_wait returns
queue_get_lock(w) ==
    /\ wpc[w] \in {"idle", "woken"}
    /\ q_lock = {}
    /\ q_lock' = {w}
    /\ wpc' = [wpc EXCEPT ![w] = "locked"]
    /\ UNCHANGED <<q_nelmts, q_elmts_added, q_head, q_tail, q_wait, nodes, w_ret>>

\* mutant: no wait on the condition, an empty list returns NULL at once
queue_get_locked_nowait(w) ==
    /\ wpc[w] = "locked"
    /\ q_lock' = q_lock \ {w}
    /\ wpc' = [wpc EXCEPT ![w] = "got"]
    /\ IF q_head = NULL
       THEN /\ w_ret' = [w_ret EXCEPT ![w] = NULL]
            /\ UNCHANGED <<q_nelmts, q_elmts_added, q_head, q_tail, q_wait, nodes>>
       ELSE /\ w_ret' = [w_ret EXCEPT ![w] = nodes[q_head].held_item]
            /\ q_head' = nodes[q_head].next
            /\ q_nelmts' = q_nelmts - 1
            /\ nodes' = [nodes EXCEPT ![q_head] = FreeNode]
            /\ UNCHANGED <<q_elmts_added, q_tail, q_wait>>

\* mutant: the head item is returned but the node stays linked
queue_get_locked_nounlink(w) ==
    /\ wpc[w] = "locked"
    /\ q_lock' = q_lock \ {w}
    /\ IF q_nelmts = 0
       THEN /\ q_wait' = q_wait \cup {w}
            /\ wpc' = [wpc EXCEPT ![w] = "waiting"]
            /\ UNCHANGED <<q_nelmts, q_elmts_added, q_head, q_tail, nodes, w_ret>>
       ELSE /\ wpc' = [wpc EXCEPT ![w] = "got"]
            /\ w_ret' = [w_ret EXCEPT ![w] = IF q_head = NULL THEN NULL
                                             ELSE nodes[q_head].held_item]
            /\ UNCHANGED <<q_nelmts, q_elmts_added, q_head, q_tail, q_wait, nodes>>

\* mutant: once the sentinel was seen NULL is returned, items linked or not
queue_get_locked_closednil(w) ==
    /\ wpc[w] = "locked"
    /\ q_lock' = q_lock \ {w}
    /\ IF q_nelmts = 0
       THEN /\ q_wait' = q_wait \cup {w}
            /\ wpc' = [wpc EXCEPT ![w] = "waiting"]
            /\ UNCHANGED <<q_nelmts, q_elmts_added, q_head, q_tail, nodes, w_ret>>
       ELSE /\ wpc' = [wpc EXCEPT ![w] = "got"]
            /\ IF q_head = NULL \/ q_nelmts < 0
               THEN /\ w_ret' = [w_ret EXCEPT ![w] = NULL]
                    /\ UNCHANGED <<q_nelmts, q_elmts_added, q_head, q_tail, q_wait, nodes>>
               ELSE /\ w_ret' = [w_ret EXCEPT ![w] = nodes[q_head].held_item]
                    /\ q_head' = nodes[q_head].next
                    /\ q_nelmts' = q_nelmts - 1
                    /\ nodes' = [nodes EXCEPT ![q_head] = FreeNode]
                    /\ UNCHANGED <<q_elmts_added, q_tail, q_wait>>

\* mutant: the head node is unlinked and nelmts is left as it was
queue_get_locked_nodecrement(w) ==
    /\ wpc[w] = "locked"
    /\ q_lock' = q_lock \ {w}
    /\ IF q_nelmts = 0
       THEN /\ q_wait' = q_wait \cup {w}
            /\ wpc' = [wpc EXCEPT ![w] = "waiting"]
            /\ UNCHANGED <<q_nelmts, q_elmts_added, q_head, q_tail, nodes, w_ret>>
       ELSE /\ wpc' = [wpc EXCEPT ![w] = "got"]
            /\ IF q_head = NULL
               THEN /\ w_ret' = [w_ret EXCEPT ![w] = NULL]
                    /\ UNCHANGED <<q_nelmts, q_elmts_added, q_head, q_tail, q_wait, nodes>>
               ELSE /\ w_ret' = [w_ret EXCEPT ![w] = nodes[q_head].held_item]
                    /\ q_head' = nodes[q_head].next
                    /\ nodes' = [nodes EXCEPT ![q_head] = FreeNode]
                    /\ UNCHANGED <<q_nelmts, q_elmts_added, q_tail, q_wait>>

\* queue_get with the lock held: wait while nelmts is 0, else return NULL when
\* head is NULL, else unlink and free the head node and return its item
queue_get_locked(w) ==
    /\ wpc[w] = "locked"
    /\ q_lock' = q_lock \ {w}
    /\ IF q_nelmts = 0
       THEN /\ q_wait' = q_wait \cup {w}
            /\ wpc' = [wpc EXCEPT ![w] = "waiting"]
            /\ UNCHANGED <<q_nelmts, q_elmts_added, q_head, q_tail, nodes, w_ret>>
       ELSE /\ wpc' = [wpc EXCEPT ![w] = "got"]
            /\ IF q_head = NULL
               THEN /\ w_ret' = [w_ret EXCEPT ![w] = NULL]
                    /\ UNCHANGED <<q_nelmts, q_elmts_added, q_head, q_tail, q_wait, nodes>>
               ELSE /\ w_ret' = [w_ret EXCEPT ![w] = nodes[q_head].held_item]
                    /\ q_head' = nodes[q_head].next
                    /\ q_nelmts' = q_nelmts - 1
                    /\ nodes' = [nodes EXCEPT ![q_head] = FreeNode]
                    /\ UNCHANGED <<q_elmts_added, q_tail, q_wait>>

(* ---------------------------- worker pool ----------------------------- *)
\* thread_work: runs the application function and returns 0
thread_work(app_ret) == 0

\* thread_start: the pthread start routine, returns (void*) 0
thread_start(app_ret) == LET r == thread_work(app_ret) IN 0

(* ------------------------- the calling thread ------------------------- *)
\* whether the environment provides the filter: deflate is built in, LZ4 and
\* ZSTD need their shared object with its symbol in the plugin directory
CanResolve(id, plugin_path, fs) ==
    \/ id = "DEFLATE"
    \/ id = "LZ4" /\ fs[<<plugin_path, "/libh5lz4.so.0">>] = "ok"
    \/ id = "ZSTD" /\ fs[<<plugin_path, "/libh5zstd.so.0">>] = "ok"

\* entry: validate the arguments, resolve the pipeline once, construct the queue
M_Entry ==
    /\ pc_main = "entry"
    /\ \E env \in PluginPathEnv, fs \in FileSystems :
          LET r == H5Z__assign_filter(h5z_symbol, pipeline, "w", env, fs)
          IN  /\ unresolved' = {i \in 0 .. Len(pipeline) - 1 :
                                    ~CanResolve(pipeline[i + 1].id, PluginPath(env), fs)}
              /\ IF buf_null
                 THEN status' = FAIL /\ pc_main' = "done" /\ UNCHANGED h5z_symbol
                 ELSE /\ h5z_symbol' = r.h5z_symbol
                      /\ IF r.ret_value = FAIL
                         THEN status' = FAIL /\ pc_main' = "done"
                         ELSE status' = status /\ pc_main' = "spawn"
    /\ UNCHANGED <<invars, next_chunk, sent, qvars, items, wpc, w_ret, workvars, filevars>>

\* start the T workers, each running thread_start on the shared context
M_Spawn ==
    /\ pc_main = "spawn"
    /\ wpc' = [w \in Workers |-> IF w <= T THEN "idle" ELSE "start"]
    /\ pc_main' = "extract"
    /\ UNCHANGED <<invars, next_chunk, sent, status, h5z_symbol, unresolved, qvars, items,
                   w_ret, workvars, filevars>>

\* extractor: materialise the next chunk into a fresh work item and call queue_add
M_Extract ==
    /\ pc_main = "extract"
    /\ next_chunk <= N
    /\ items' = [items EXCEPT ![next_chunk] = "ready"]
    /\ queue_add_lock(MAIN, next_chunk)
    /\ pc_main' = "add"
    /\ UNCHANGED <<invars, next_chunk, sent, status, h5z_symbol, unresolved, w_ret, workvars,
                   filevars>>

M_Enqueue ==
    /\ pc_main = "add"
    /\ queue_add_locked(MAIN, next_chunk)
    /\ next_chunk' = next_chunk + 1
    /\ pc_main' = "extract"
    /\ UNCHANGED <<invars, sent, status, h5z_symbol, unresolved, items, w_ret, workvars,
                   filevars>>

\* mutant: the producer does not wait for the last chunk before a sentinel
M_SentinelLock_early ==
    /\ pc_main = "extract"
    /\ sent < T
    /\ queue_add_lock(MAIN, NULL)
    /\ pc_main' = "close"
    /\ UNCHANGED <<invars, next_chunk, sent, status, h5z_symbol, unresolved, items, w_ret,
                   workvars, filevars>>

\* after the last chunk: one null sentinel per worker
M_SentinelLock ==
    /\ pc_main = "extract"
    /\ next_chunk > N
    /\ sent < T
    /\ queue_add_lock(MAIN, NULL)
    /\ pc_main' = "close"
    /\ UNCHANGED <<invars, next_chunk, sent, status, h5z_symbol, unresolved, items, w_ret,
                   workvars, filevars>>

M_Sentinel ==
    /\ pc_main = "close"
    /\ queue_add_locked(MAIN, NULL)
    /\ sent' = sent + 1
    /\ pc_main' = IF sent + 1 = T THEN "join" ELSE "extract"
    /\ UNCHANGED <<invars, next_chunk, status, h5z_symbol, unresolved, items, w_ret, workvars,
                   filevars>>

\* join every worker, then report the status
M_Join ==
    /\ pc_main = "join"
    /\ \A w \in 1 .. T : wpc[w] = "exited"
    /\ status' = IF \E w \in 1 .. T : thread_ret[w] # 0 THEN FAIL ELSE SUCCEED
    /\ pc_main' = "done"
    /\ UNCHANGED <<invars, next_chunk, sent, h5z_symbol, unresolved, qvars, items, wpc, w_ret,
                   workvars, filevars>>

(* ------------------------------ workers ------------------------------- *)
\* positions whose filter returns 0 on chunk c
Zeros(c) == {z[2] : z \in {y \in filter_zero : y[1] = c}}

W_GetLock(w) ==
    /\ queue_get_lock(w)
    /\ UNCHANGED <<invars, mainvars, items, workvars, filevars>>

W_Get(w) ==
    /\ queue_get_locked(w)
    /\ UNCHANGED <<invars, mainvars, items, workvars, filevars>>

\* a wakeup of pthread_cond_wait that no signal caused
W_Spurious(w) ==
    /\ wpc[w] = "waiting"
    /\ q_wait' = q_wait \ {w}
    /\ wpc' = [wpc EXCEPT ![w] = "woken"]
    /\ UNCHANGED <<invars, mainvars, q_nelmts, q_elmts_added, q_head, q_tail, q_lock, nodes,
                   items, w_ret, workvars, filevars>>

\* a dequeued chunk: run the pipeline, hand the result to the write-through
\* primitive (which may fail), free the buffer
W_Process(w) ==
    /\ wpc[w] = "got"
    /\ w_ret[w] # NULL
    /\ w_err[w] = "none"
    /\ LET c == w_ret[w]
           r == WorkerPipeline(pipeline, h5z_symbol, Zeros(c), c)
       IN  \E ok \in BOOLEAN :
              /\ wt_calls' = [wt_calls EXCEPT ![c] = @ + 1]
              /\ file' = IF ok THEN [file EXCEPT ![c] = [buf |-> r.buffer, nbytes |-> r.nbytes,
                                                         mask |-> r.mask]]
                         ELSE file
              /\ w_err' = [w_err EXCEPT ![w] = IF r.fatal THEN "pipeline"
                                               ELSE IF ok THEN "none" ELSE "write"]
              /\ items' = [items EXCEPT ![c] = "freed"]
    /\ wpc' = [wpc EXCEPT ![w] = "idle"]
    /\ UNCHANGED <<invars, mainvars, qvars, w_ret, w_nil, thread_ret>>

\* after an error the worker drains: a dequeued item is freed unwritten
W_Drain(w) ==
    /\ wpc[w] = "got"
    /\ w_ret[w] # NULL
    /\ w_err[w] # "none"
    /\ items' = [items EXCEPT ![w_ret[w]] = "freed"]
    /\ wpc' = [wpc EXCEPT ![w] = "idle"]
    /\ UNCHANGED <<invars, mainvars, qvars, w_ret, workvars, filevars>>

\* queue_get returned NULL: the application function returns, then thread_start
W_Exit(w) ==
    /\ wpc[w] = "got"
    /\ w_ret[w] = NULL
    /\ w_nil' = [w_nil EXCEPT ![w] = @ + 1]
    /\ thread_ret' = [thread_ret EXCEPT ![w] = thread_start(IF w_err[w] = "none" THEN SUCCEED
                                                             ELSE FAIL)]
    /\ wpc' = [wpc EXCEPT ![w] = "exited"]
    /\ UNCHANGED <<invars, mainvars, qvars, items, w_ret, w_err, filevars>>

Next ==
    \/ M_Entry
    \/ M_Spawn
    \/ M_Extract
    \/ M_Enqueue
    \/ M_SentinelLock
    \/ M_Sentinel
    \/ M_Join
    \/ \E w \in Workers :
          \/ W_GetLock(w)
          \/ W_Get(w)
          \/ W_Spurious(w)
          \/ W_Process(w)
          \/ W_Drain(w)
          \/ W_Exit(w)

Spec == Init /\ [][Next]_vars

\* scheduling: every thread that can take a step eventually does, a thread that
\* keeps finding the mutex free eventually gets it; a spurious wakeup is never owed
Fairness ==
    /\ WF_vars(M_Entry \/ M_Spawn \/ M_Enqueue \/ M_Sentinel \/ M_Join)
    /\ SF_vars(M_Extract \/ M_SentinelLock)
    /\ \A w \in Workers :
          /\ WF_vars(W_Get(w) \/ W_Process(w) \/ W_Drain(w) \/ W_Exit(w))
          /\ SF_vars(W_GetLock(w))

LiveSpec == Spec /\ Fairness

(* ------------------ the queue closed by one sentinel ------------------ *)
\* the producer uses the queue as a single closed latch: after the last chunk
\* it calls queue_add(q, NULL) once, however many workers there are
L_CloseLock ==
    /\ pc_main = "extract"
    /\ next_chunk > N
    /\ sent = 0
    /\ queue_add_lock(MAIN, NULL)
    /\ pc_main' = "close"
    /\ UNCHANGED <<invars, next_chunk, sent, status, h5z_symbol, unresolved, items, w_ret,
                   workvars, filevars>>

L_Close ==
    /\ pc_main = "close"
    /\ queue_add_locked(MAIN, NULL)
    /\ sent' = sent + 1
    /\ pc_main' = "closed"
    /\ UNCHANGED <<invars, next_chunk, status, h5z_symbol, unresolved, items, w_ret, workvars,
                   filevars>>

LatchInit ==
    /\ EnvIdle
    /\ N \in 0 .. MaxChunks
    /\ T \in 1 .. MaxThreads
    /\ pipeline = <<>>
    /\ buf_null = FALSE
    /\ filter_zero = {}
    /\ CallStart

LatchNext ==
    \/ M_Entry
    \/ M_Spawn
    \/ M_Extract
    \/ M_Enqueue
    \/ L_CloseLock
    \/ L_Close
    \/ \E w \in Workers :
          \/ W_GetLock(w)
          \/ W_Get(w)
          \/ W_Spurious(w)
          \/ W_Process(w)
          \/ W_Drain(w)
          \/ W_Exit(w)

LatchSpec == LatchInit /\ [][LatchNext]_vars

\* the scheduling of Fairness, for the producer that closes once
LatchFairness ==
    /\ WF_vars(M_Entry \/ M_Spawn \/ M_Enqueue \/ L_Close)
    /\ SF_vars(M_Extract \/ L_CloseLock)
    /\ \A w \in Workers :
          /\ WF_vars(W_Get(w) \/ W_Process(w) \/ W_Drain(w) \/ W_Exit(w))
          /\ SF_vars(W_GetLock(w))

LatchLiveSpec == LatchSpec /\ LatchFairness

(* ------------------- malloc failing inside queue_add ------------------ *)
\* the outcomes of q_item->held_item = item with q_item == NULL (undefined
\* behaviour): the store traps and the process is killed, or it does not trap
\* and queue_add goes on with q_item == NULL
NullStoreOutcomes == {"killed", "untrapped"}

\* the extractor has materialised the chunk and calls queue_add, whose malloc
\* returns NULL
M_ExtractNoMem ==
    /\ pc_main = "extract"
    /\ next_chunk <= N
    /\ items' = [items EXCEPT ![next_chunk] = "ready"]
    /\ pc_main' = "nomem"
    /\ UNCHANGED <<invars, next_chunk, sent, status, h5z_symbol, unresolved, qvars, wpc, w_ret,
                   workvars, filevars>>

\* queue_add stores through q_item without testing it.  Killed: every thread
\* of the process ends.  Untrapped: the lock is taken, NULL is linked as the
\* new node, the condition is signalled and queue_add returns 1; what the
\* producer does afterwards is not followed further.
M_NullStore ==
    /\ pc_main = "nomem"
    /\ \E outcome \in NullStoreOutcomes :
          IF outcome = "killed"
          THEN /\ pc_main' = "killed"
               /\ wpc' = [w \in Workers |-> "killed"]
               /\ q_wait' = {}
               /\ UNCHANGED <<q_nelmts, q_elmts_added, q_head, q_tail, q_lock, nodes>>
          ELSE /\ q_lock = {}
               /\ pc_main' = "undefined"
               /\ cond_signal(wpc)
               /\ q_nelmts' = IF q_head = NULL THEN 1 ELSE q_nelmts + 1
               /\ q_elmts_added' = q_elmts_added + 1
               /\ q_tail' = NULL
               /\ UNCHANGED <<q_head, q_lock, nodes>>
    /\ UNCHANGED <<invars, next_chunk, sent, status, h5z_symbol, unresolved, items, w_ret,
                   workvars, filevars>>

AllocInit ==
    /\ EnvIdle
    /\ N \in 0 .. MaxChunks
    /\ T \in 1 .. MaxThreads
    /\ pipeline = <<>>
    /\ buf_null = FALSE
    /\ filter_zero = {}
    /\ CallStart

AllocNext ==
    \/ Next
    \/ M_ExtractNoMem
    \/ M_NullStore

AllocSpec == AllocInit /\ [][AllocNext]_vars

(* ------------- a thread asking how many items were added ------------- *)
O_Lock ==
    /\ obs.pc = "idle"
    /\ queue_get_elmts_added_lock(OBS)
    /\ UNCHANGED <<N, T, pipeline, buf_null, filter_zero, tcvars, plvars, afvars, edvars, apivars,
                   H5Z_table_g, mainvars, items, wpc, w_ret, workvars, filevars>>

O_Read ==
    /\ obs.pc = "locked"
    /\ queue_get_elmts_added_locked(OBS)
    /\ UNCHANGED <<N, T, pipeline, buf_null, filter_zero, tcvars, plvars, afvars, edvars, apivars,
                   H5Z_table_g, mainvars, items, wpc, w_ret, workvars, filevars>>

ObserverInit ==
    /\ EnvIdle
    /\ N \in 0 .. 2
    /\ T \in 1 .. MaxThreads
    /\ pipeline = <<>>
    /\ buf_null = FALSE
    /\ filter_zero = {}
    /\ CallStart

ObserverNext ==
    \/ Next
    \/ O_Lock
    \/ O_Read

ObserverSpec == ObserverInit /\ [][ObserverNext]_vars

(* --------------- the filter registry changing under a call ------------ *)
\* the ids another thread of the application registers or unregisters
RegistryIds == {"DEFLATE", "LZ4", "ZSTD"}

\* the call running: resolution has finished, the workers are not yet joined
CallRunning == pc_main \in {"spawn", "extract", "add", "close", "join"}

\* the dataset of the call is open and its creation property list names the
\* filters of the pipeline (H5Z__check_unregister_dset_cb)
DatasetUses(id) == \E i \in 1 .. Len(pipeline) : pipeline[i].id = id

R_Register(id) ==
    /\ CallRunning
    /\ H5Z_table_g' = H5Z_register(H5Z_table_g, FilterClass(id))
    /\ H5Z_table_alloc_g' = H5Z_table_alloc(H5Z_table_g, H5Z_table_alloc_g, FilterClass(id))
    /\ UNCHANGED <<tcvars, plvars, afvars, edvars, api, obs, callvars>>

R_Unregister(id) ==
    /\ CallRunning
    /\ H5Z_table_g' = H5Z__unregister(H5Z_table_g, id, DatasetUses(id)).table
    /\ UNCHANGED H5Z_table_alloc_g
    /\ UNCHANGED <<tcvars, plvars, afvars, edvars, api, obs, callvars>>

\* a call on the example's inputs: a source buffer, a pipeline of one filter;
\* the LZ4 plugin may have registered itself already (H5Zfilter_avail)
RegistryInit ==
    /\ ThreadCountIdle
    /\ PipelineIdle
    /\ H5Z_table_g \in {TableAtInit, TableOf(<<"DEFLATE", "LZ4">>)}
    /\ obs = NoObserver
    /\ EditIdle
    /\ AssignIdle
    /\ TableApiIdle
    /\ N \in 1 .. 2
    /\ T \in 1 .. MaxThreads
    /\ pipeline \in {p \in SeqsUpTo(FilterEntries, MaxFilters) : p # <<>>}
    /\ buf_null = FALSE
    /\ filter_zero \in {{}, {<<1, 0>>}}
    /\ CallStart

RegistryNext ==
    \/ Next
    \/ \E id \in RegistryIds : R_Register(id) \/ R_Unregister(id)

RegistrySpec == RegistryInit /\ [][RegistryNext]_vars

(* ------------------- get_thread_count on its inputs ------------------- *)
\* no write call is running; H5_NTHREADS is unset or holds any string
ThreadCountInit ==
    /\ H5_NTHREADS \in {e \in EnvValues : e.set \/ e.str = <<>>}
    /\ tc = NoThreadCount
    /\ PipelineIdle
    /\ H5Z_table_g = TableAtInit
    /\ obs = NoObserver
    /\ EditIdle
    /\ AssignIdle
    /\ TableApiIdle
    /\ N = 0 /\ T = 1 /\ pipeline = <<>> /\ buf_null = FALSE /\ filter_zero = {}
    /\ CallStart

TC_Call ==
    /\ tc.pc = "start"
    /\ LET r == get_thread_count(H5_NTHREADS)
       IN  tc' = [pc |-> "done", ret |-> r.ret, stderr |-> r.stderr]
    /\ UNCHANGED <<H5_NTHREADS, plvars, afvars, edvars, apivars, H5Z_table_g, obs, callvars>>

ThreadCountNext == TC_Call

ThreadCountSpec == ThreadCountInit /\ [][ThreadCountNext]_vars

(* --------------------- H5Z_pipeline on its inputs --------------------- *)
\* the filter table H5Z_table_g may hold
Tables == {TableOf(<<>>), TableOf(<<"DEFLATE">>), TableOf(<<"DEFLATE", "LZ4">>),
           TableOf(<<"LZ4", "ZSTD", "DEFLATE">>)}
Registered(table) == {table[i].id : i \in 1 .. Len(table)}

\* a write-direction call on one raw chunk: any pipeline of up to MaxPline
\* entries, any incoming mask, any callback, any table, any failing positions
PipelineInit ==
    /\ pl_args \in [pline : SeqsUpTo(FilterEntries, MaxPline),
                    flags : {{}},
                    filter_mask : SUBSET (0 .. MaxPline - 1),
                    cb : {"none", "CONT", "FAIL"},
                    table : Tables,
                    zeros : SUBSET (0 .. MaxPline - 1),
                    plugins : {{}}]
    /\ pl_ret = NoPipelineRun
    /\ ThreadCountIdle
    /\ H5Z_table_g = TableAtInit
    /\ obs = NoObserver
    /\ EditIdle
    /\ AssignIdle
    /\ TableApiIdle
    /\ N = 0 /\ T = 1 /\ pipeline = <<>> /\ buf_null = FALSE /\ filter_zero = {}
    /\ CallStart

\* the buffer handed to the call: a raw chunk to write, or to read the chunk as
\* it was stored by a write whose failure mask is the incoming mask
PL_Call ==
    /\ pl_ret.pc = "start"
    /\ LET buf == IF H5Z_FLAG_REVERSE \in pl_args.flags
                  THEN StoredBuffer(pl_args.pline, pl_args.filter_mask, 1)
                  ELSE RawBuffer(1)
           r == H5Z_pipeline(pl_args.pline, pl_args.flags, pl_args.filter_mask, pl_args.cb,
                             ChunkBytes, ChunkBytes, buf, pl_args.table, pl_args.zeros,
                             pl_args.plugins)
       IN  pl_ret' = [pc |-> "done", ret_value |-> r.ret_value, filter_mask |-> r.filter_mask,
                      nbytes |-> r.nbytes, buf_size |-> r.buf_size, buf |-> r.buf,
                      failed |-> r.failed, calls |-> r.calls, table |-> r.table]
    /\ UNCHANGED <<tcvars, pl_args, afvars, edvars, apivars, H5Z_table_g, obs, callvars>>

PipelineNext == PL_Call

PipelineSpec == PipelineInit /\ [][PipelineNext]_vars

(* ----------------- H5Z_pipeline in both directions -------------------- *)
\* a call in the write or in the read direction (H5Z_FLAG_REVERSE), on a raw or
\* a stored chunk; for a read a plugin for LZ4 may or may not be loadable
DirectionInit ==
    /\ pl_args \in {a \in [pline : SeqsUpTo(FilterEntries, MaxPline),
                            flags : {{}, {H5Z_FLAG_REVERSE}},
                            filter_mask : SUBSET (0 .. MaxPline - 1),
                            cb : {"none", "CONT", "FAIL"},
                            table : Tables,
                            zeros : SUBSET (0 .. MaxPline - 1),
                            plugins : {{}, {"LZ4"}}] :
                        a.flags = {} => a.plugins = {}}
    /\ pl_ret = NoPipelineRun
    /\ ThreadCountIdle
    /\ H5Z_table_g = TableAtInit
    /\ obs = NoObserver
    /\ EditIdle
    /\ AssignIdle
    /\ TableApiIdle
    /\ N = 0 /\ T = 1 /\ pipeline = <<>> /\ buf_null = FALSE /\ filter_zero = {}
    /\ CallStart

DirectionNext == PL_Call

DirectionSpec == DirectionInit /\ [][DirectionNext]_vars

(* --------------- a producer that closes the queue again --------------- *)
\* after its T sentinels the producer calls queue_add(q, NULL) up to
\* MaxExtraCloses more times, while the workers drain the queue and exit
X_CloseLock ==
    /\ pc_main = "join"
    /\ sent < T + MaxExtraCloses
    /\ queue_add_lock(MAIN, NULL)
    /\ pc_main' = "reclose"
    /\ UNCHANGED <<invars, next_chunk, sent, status, h5z_symbol, unresolved, items, w_ret,
                   workvars, filevars>>

X_Close ==
    /\ pc_main = "reclose"
    /\ queue_add_locked(MAIN, NULL)
    /\ sent' = sent + 1
    /\ pc_main' = "join"
    /\ UNCHANGED <<invars, next_chunk, status, h5z_symbol, unresolved, items, w_ret, workvars,
                   filevars>>

RecloseInit ==
    /\ EnvIdle
    /\ N \in 0 .. MaxChunks
    /\ T \in 1 .. MaxThreads
    /\ pipeline = <<>>
    /\ buf_null = FALSE
    /\ filter_zero = {}
    /\ CallStart

RecloseNext ==
    \/ Next
    \/ X_CloseLock
    \/ X_Close

RecloseSpec == RecloseInit /\ [][RecloseNext]_vars

(* --------- a producer that adds items to a queue it has closed -------- *)
\* the producer calls queue_add(q, NULL) whenever it likes, up to T times, and
\* goes on with the chunks it has not enqueued yet
A_CloseLock ==
    /\ pc_main = "extract"
    /\ sent < T
    /\ queue_add_lock(MAIN, NULL)
    /\ pc_main' = "close"
    /\ UNCHANGED <<invars, next_chunk, sent, status, h5z_symbol, unresolved, items, w_ret,
                   workvars, filevars>>

A_Close ==
    /\ pc_main = "close"
    /\ queue_add_locked(MAIN, NULL)
    /\ sent' = sent + 1
    /\ pc_main' = "extract"
    /\ UNCHANGED <<invars, next_chunk, status, h5z_symbol, unresolved, items, w_ret, workvars,
                   filevars>>

LateAddInit ==
    /\ EnvIdle
    /\ N \in 0 .. MaxChunks
    /\ T \in 1 .. MaxThreads
    /\ pipeline = <<>>
    /\ buf_null = FALSE
    /\ filter_zero = {}
    /\ CallStart

LateAddNext ==
    \/ M_Entry
    \/ M_Spawn
    \/ M_Extract
    \/ M_Enqueue
    \/ A_CloseLock
    \/ A_Close
    \/ \E w \in Workers :
          \/ W_GetLock(w)
          \/ W_Get(w)
          \/ W_Spurious(w)
          \/ W_Process(w)
          \/ W_Drain(w)
          \/ W_Exit(w)

LateAddSpec == LateAddInit /\ [][LateAddNext]_vars

(* ------------------ H5Z__assign_filter on its inputs ------------------ *)
\* the pipelines handed to the resolver: any ids, the flags play no part
AssignEntries == [id : {"DEFLATE", "LZ4", "ZSTD", "OTHER"}, optional : {FALSE}]

\* a call on a zeroed h5z_symbol array: any pipeline of up to MaxPline entries,
\* either mode, HDF5_PLUGIN_PATH set or not, any content of the two directories
AssignInit ==
    /\ af_args \in [pipeline : SeqsUpTo(AssignEntries, MaxPline), mode : {"w", "r"},
                    env : PluginPathEnv, fs : FileSystems]
    /\ af_ret = NoAssignRun
    /\ ThreadCountIdle
    /\ PipelineIdle
    /\ H5Z_table_g = TableAtInit
    /\ obs = NoObserver
    /\ EditIdle
    /\ TableApiIdle
    /\ N = 0 /\ T = 1 /\ pipeline = <<>> /\ buf_null = FALSE /\ filter_zero = {}
    /\ CallStart

AF_Call ==
    /\ af_ret.pc = "start"
    /\ LET r == H5Z__assign_filter([i \in 1 .. Len(af_args.pipeline) |-> "NULL"],
                                   af_args.pipeline, af_args.mode, af_args.env, af_args.fs)
       IN  af_ret' = [pc |-> "done", ret_value |-> r.ret_value, h5z_symbol |-> r.h5z_symbol]
    /\ UNCHANGED <<tcvars, plvars, af_args, edvars, apivars, H5Z_table_g, obs, callvars>>

AssignNext == AF_Call

AssignSpec == AssignInit /\ [][AssignNext]_vars

(* -------------------- calls on the filter table ---------------------- *)
\* the ids the calls are made with: one below 0, two predefined ones, three an
\* application may register, one above H5Z_FILTER_MAX
ApiIds == {"NEGATIVE", "DEFLATE", "SHUFFLE", "LZ4", "ZSTD", "OTHER", "TOOBIG"}
\* the ids the library and its plugins register classes for
TableIds == {"DEFLATE", "LZ4", "ZSTD", "OTHER"}
\* the callables a class of an id may carry: the filter's own or a newer one
Callables(id) == {id, "H5Z_filter_new"}
\* the classes handed to H5Z_register by the library
LibraryClasses == UNION {{[id |-> id, filter |-> f] : f \in Callables(id)} : id \in TableIds}

\* what an application hands to H5Zregister: NULL, or a struct of either
\* layout with any id and any or no callable.  An H5Z_class2_t carries the
\* version H5Z_CLASS_T_VERS; an H5Z_class1_t carries an id other than that
\* number, so that its first field tells the layouts apart.
ClassPointers ==
    {NullPointer} \cup
    {c \in [struct : {"H5Z_class1_t", "H5Z_class2_t"}, id : ApiIds,
            filter : {"NULL", "H5Z_filter_new"}] :
        c.struct = "H5Z_class1_t" => H5Z_filter_t(c.id) # H5Z_CLASS_T_VERS}

\* H5MM_realloc is asked for memory, and may return NULL, when every slot of
\* the table is used
ReallocFails == IF Len(H5Z_table_g) >= H5Z_table_alloc_g THEN BOOLEAN ELSE {FALSE}

\* before H5Z_init: no table; the library is built with or without the
\* deprecated symbols
TableInit ==
    /\ H5Z_table_g = <<>>
    /\ H5Z_table_alloc_g = 0
    /\ api \in {[NoApiCall EXCEPT !.H5_NO_DEPRECATED_SYMBOLS = b] : b \in BOOLEAN}
    /\ ThreadCountIdle
    /\ PipelineIdle
    /\ AssignIdle
    /\ obs = NoObserver
    /\ EditIdle
    /\ N = 0 /\ T = 1 /\ pipeline = <<>> /\ buf_null = FALSE /\ filter_zero = {}
    /\ CallStart

\* what the environment of a call may be like: "nomem" H5MM_realloc returns
\* NULL, "dataset" / "group" an open dataset / group has the filter in its
\* creation property list, "plugin" H5PL_load finds a plugin for the filter
NoMemory == {IF nomem THEN {"nomem"} ELSE {} : nomem \in ReallocFails}
OpenObjects == {{}, {"dataset"}, {"group"}}
\* object.found after H5I_iterate has called H5Z__check_unregister_dset_cb and
\* H5Z__check_unregister_group_cb on the open objects
ObjectFound(env) == "dataset" \in env \/ "group" \in env

\* the call made and what it returned; the table and its allocation after it
ApiReturns(fn, struct, id, filter, env, r) ==
    /\ api' = [api EXCEPT !.fn = fn, !.struct = struct, !.id = id, !.filter = filter,
                          !.env = env, !.ret_value = r.ret_value]
    /\ H5Z_table_g' = r.table
    /\ H5Z_table_alloc_g' = r.alloc
    /\ UNCHANGED <<tcvars, plvars, afvars, edvars, obs, callvars>>

\* the library registers a class; H5MM_realloc may return NULL
T_register ==
    \E cls \in LibraryClasses, env \in NoMemory :
        ApiReturns("H5Z_register", "H5Z_class2_t", cls.id, cls.filter, env,
                   H5Z_register_call(H5Z_table_g, H5Z_table_alloc_g, cls, "nomem" \in env))

\* the library unregisters a filter; a dataset or group may be using it
T_unregister ==
    \E id \in TableIds, env \in OpenObjects :
        ApiReturns("H5Z__unregister", "none", id, "NULL", env,
                   H5Z__unregister_call(H5Z_table_g, H5Z_table_alloc_g, id, ObjectFound(env)))

\* the library asks for a filter; a plugin for it can be loaded or not
T_filter_avail ==
    \E id \in TableIds, plugin \in {{}, {"plugin"}}, nomem \in NoMemory :
        ApiReturns("H5Z_filter_avail", "none", id, "NULL", plugin \cup nomem,
                   H5Z_filter_avail(H5Z_table_g, H5Z_table_alloc_g, id,
                                    IF plugin = {} THEN {} ELSE {id}, nomem # {}))

\* an application registers a class
T_Zregister ==
    \E cls \in ClassPointers, env \in NoMemory :
        ApiReturns("H5Zregister", cls.struct, cls.id, cls.filter, env,
                   H5Zregister(H5Z_table_g, H5Z_table_alloc_g, cls,
                               api.H5_NO_DEPRECATED_SYMBOLS, "nomem" \in env))

\* an application unregisters a filter
T_Zunregister ==
    \E id \in ApiIds, env \in OpenObjects :
        ApiReturns("H5Zunregister", "none", id, "NULL", env,
                   H5Zunregister(H5Z_table_g, H5Z_table_alloc_g, id, ObjectFound(env)))

TableNext ==
    \/ T_register
    \/ T_unregister
    \/ T_filter_avail
    \/ T_Zregister
    \/ T_Zunregister

TableSpec == TableInit /\ [][TableNext]_vars

(* ------------------ calls that edit a filter pipeline ----------------- *)
\* the filters, flags and client data the calls are made with
EditIds == {"DEFLATE", "LZ4"}
\* client data one longer than an entry's own array holds
LongCd == [i \in 1 .. H5Z_COMMON_CD_VALUES + 1 |-> 4 + i]
CdArgs == {<<>>, <<5>>, LongCd}
\* the arguments of H5Z_append and H5Z_modify: either filter, mandatory (0) or
\* optional (1), without client data, with client data that fit the entry's
\* own array, and with more
EditArgs ==
    {[filter |-> "DEFLATE", flags |-> 0, cd_values |-> <<>>],
     [filter |-> "DEFLATE", flags |-> 1, cd_values |-> <<5>>],
     [filter |-> "LZ4", flags |-> 0, cd_values |-> LongCd],
     [filter |-> "LZ4", flags |-> 1, cd_values |-> <<5>>]}
\* a slot as H5Z_append fills it
FilledSlot(filter, flags, cd_values) ==
    SetParameters([ZeroSlot EXCEPT !.id = filter, !.flags = flags,
                                   !.cd_nelmts = Len(cd_values)], cd_values, FALSE)
\* the pipeline of a property list the library has copied or read from a
\* file: one filter in an array of one slot
DecodedPlines ==
    {[version |-> H5O_PLINE_VERSION_1, nused |-> 1, nalloc |-> 1,
      filter |-> <<FilledSlot("DEFLATE", 0, cd_values)>>] : cd_values \in CdArgs}
\* what undefined behaviour in a call turns into: the process is killed, or
\* the access goes through and the call goes on
UndefinedOutcomes == {"killed", "untrapped"}

EditInit ==
    /\ dcpl_pline \in {EmptyPline} \cup DecodedPlines
    /\ edit = NoEdit
    /\ ThreadCountIdle
    /\ PipelineIdle
    /\ AssignIdle
    /\ H5Z_table_g = TableAtInit
    /\ TableApiIdle
    /\ obs = NoObserver
    /\ N = 0 /\ T = 1 /\ pipeline = <<>> /\ buf_null = FALSE /\ filter_zero = {}
    /\ CallStart

\* the call made, what it returned and the pipeline after it
EditReturns(fn, filter, flags, cd_values, env, r) ==
    /\ edit' = [fn |-> fn, filter |-> filter, flags |-> flags, cd_values |-> cd_values,
                env |-> env, returned |-> TRUE, ret_value |-> r.ret_value, ub |-> "none",
                idx |-> 0]
    /\ dcpl_pline' = r.pline
    /\ UNCHANGED <<tcvars, plvars, afvars, apivars, H5Z_table_g, obs, callvars>>

\* the allocations a call with these arguments asks for, each failing or not
AppendEnvs(cd_values) ==
    {e \in SUBSET {"realloc_null", "malloc_null"} :
        /\ "realloc_null" \in e => dcpl_pline.nused >= dcpl_pline.nalloc
        /\ "malloc_null" \in e => Len(cd_values) > H5Z_COMMON_CD_VALUES}

E_append ==
    /\ edit.returned
    /\ \E a \in EditArgs :
          \E env \in AppendEnvs(a.cd_values) :
              EditReturns("H5Z_append", a.filter, a.flags, a.cd_values, env,
                          H5Z_append(dcpl_pline, a.filter, a.flags, a.cd_values, env))

E_modify ==
    /\ edit.returned
    /\ \E a \in EditArgs :
          \E env \in {e \in AppendEnvs(a.cd_values) : "realloc_null" \notin e} :
              LET r == H5Z_modify(dcpl_pline, a.filter, a.flags, a.cd_values, env)
              IN  \E outcome \in IF r.ub = "none" THEN {"untrapped"} ELSE UndefinedOutcomes :
                      /\ edit' = [fn |-> "H5Z_modify", filter |-> a.filter, flags |-> a.flags,
                                  cd_values |-> a.cd_values, env |-> env,
                                  returned |-> outcome = "untrapped",
                                  ret_value |-> r.ret_value, ub |-> r.ub, idx |-> r.idx]
                      /\ dcpl_pline' = IF outcome = "untrapped" THEN r.pline ELSE dcpl_pline
                      /\ UNCHANGED <<tcvars, plvars, afvars, apivars, H5Z_table_g, obs, callvars>>

E_delete ==
    /\ edit.returned
    /\ \E filter \in EditIds \cup {H5Z_FILTER_ALL} :
          \E reset_fails \in IF filter = H5Z_FILTER_ALL /\ dcpl_pline.nused > 0
                              THEN BOOLEAN ELSE {FALSE} :
              LET r == H5Z_delete(dcpl_pline, filter, reset_fails)
              IN  \E outcome \in IF r.ub = "none" THEN {"untrapped"} ELSE UndefinedOutcomes :
                      /\ edit' = [fn |-> "H5Z_delete", filter |-> filter, flags |-> 0,
                                  cd_values |-> <<>>,
                                  env |-> IF reset_fails THEN {"reset_fails"} ELSE {},
                                  returned |-> outcome = "untrapped",
                                  ret_value |-> r.ret_value, ub |-> r.ub, idx |-> 0]
                      /\ dcpl_pline' = IF outcome = "untrapped" THEN r.pline ELSE dcpl_pline
                      /\ UNCHANGED <<tcvars, plvars, afvars, apivars, H5Z_table_g, obs, callvars>>

EditNext ==
    \/ E_append
    \/ E_modify
    \/ E_delete

EditSpec == EditInit /\ [][EditNext]_vars

\* a pipeline built by H5Z_append alone, from the freshly initialised one
AppendInit == EditInit /\ dcpl_pline = EmptyPline
AppendNext == E_append
AppendSpec == AppendInit /\ [][AppendNext]_vars

(* ------------------------ the serial write path ----------------------- *)
\* the serial path: one thread runs H5Z_pipeline over the chunks in extraction
\* order and stores each result; it stops at the first chunk whose pipeline fails
RECURSIVE serial_write(_, _, _)
serial_write(table, c, f) ==
    IF c > N THEN f
    ELSE LET r == H5Z_pipeline(pipeline, {}, {}, "none", ChunkBytes, ChunkBytes,
                               RawBuffer(c), table, Zeros(c), {})
         IN  IF r.ret_value = FAIL THEN f
             ELSE serial_write(table, c + 1,
                               [f EXCEPT ![c] = [buf |-> r.buf, nbytes |-> r.nbytes,
                                                 mask |-> r.filter_mask]])

SerialFile(table) == serial_write(table, 1, [c \in Chunks |-> NoChunk])


(* ------------------------------ helpers ------------------------------- *)
\* the workers were started and the call has returned
Returned == pc_main = "done" /\ \A w \in 1 .. T : wpc[w] = "exited"
NoWorkerError == \A w \in 1 .. T : w_err[w] = "none"
SomeWorkerError == \E w \in 1 .. T : w_err[w] # "none"

\* the nodes linked from q->head
RECURSIVE linked_from(_, _)
linked_from(n, seen) ==
    IF n \notin Chunks \/ n \in seen THEN seen ELSE linked_from(nodes[n].next, seen \cup {n})

Linked == linked_from(q_head, {})
InQueue(c) == \E n \in Linked : nodes[n].held_item = c

\* the threads that hold work item c outside the queue
Holders(c) ==
    (IF pc_main = "add" /\ next_chunk = c THEN {MAIN} ELSE {})
        \cup {w \in Workers : wpc[w] = "got" /\ w_ret[w] = c}

\* the chunks handed to the write-through primitive are the first k, for some k
WrittenIsPrefix == \E k \in 0 .. N : \A c \in Chunks : (wt_calls[c] >= 1) <=> (c <= k)

MandatoryUnresolved == \E i \in unresolved : ~pipeline[i + 1].optional

\* the characters '0' .. '9'
Digits == 48 .. 57
OnlyDigits(str) == \A i \in 1 .. Len(str) : str[i] \in Digits

\* the number a string of digits denotes in decimal
RECURSIVE DecimalValue(_)
DecimalValue(str) ==
    IF str = <<>> THEN 0
    ELSE 10 * DecimalValue(SubSeq(str, 1, Len(str) - 1)) + (str[Len(str)] - 48)

C3_WorkersExit == (pc_main = "join") ~> Returned

C3_Witness ==
    /\ Returned
    /\ T > N
    /\ \A w \in 1 .. T : w_nil[w] = 1

\* C4: a worker gets NULL from queue_get at most once and only after a sentinel
\* was enqueued, a worker has exited exactly when it has got its NULL, and when
\* the call returns T sentinels were enqueued and each worker got NULL once.
C4_Sentinels ==
    /\ \A w \in Workers :
          /\ w_nil[w] <= 1
          /\ (wpc[w] = "exited") <=> (w_nil[w] = 1)
          /\ (wpc[w] = "got" /\ w_ret[w] = NULL) => sent >= 1
          /\ w_nil[w] = 1 => sent >= 1
    /\ sent <= T
    /\ pc_main = "join" => sent = T
    /\ Returned => (sent = T /\ \A w \in 1 .. T : w_nil[w] = 1)

C4_Witness ==
    /\ Returned
    /\ T >= 2 /\ N >= 1
    /\ sent = T
    /\ \A w \in 1 .. T : w_nil[w] = 1

\* C5: a work item is never held by two threads, and a materialised item that
\* is not yet freed is either held by exactly one thread (the producer before
\* queue_add links it, the worker that dequeued it afterwards) or in the queue.
C5_SingleOwner ==
    \A c \in Chunks :
        /\ Cardinality(Holders(c)) <= 1
        /\ items[c] = "ready" => ((Cardinality(Holders(c)) = 1) <=> ~InQueue(c))
        /\ items[c] # "ready" => (Holders(c) = {} /\ ~InQueue(c))

C5_Witness ==
    \E w1, w2 \in Workers :
        /\ w1 # w2
        /\ Holders(1) = {w1}
        /\ Holders(2) = {w2}

\* C6: a value returned by queue_get is a work item the producer has fully
\* materialised and whose queue_add has finished; a worker is never inside the
\* queue while the producer is, and every node linked in the queue is
\* allocated and initialised.
C6_HappensBefore ==
    /\ \A w \in Workers :
          (wpc[w] = "got" /\ w_ret[w] # NULL)
              => /\ w_ret[w] \in 1 .. N
                 /\ items[w_ret[w]] = "ready"
                 /\ w_ret[w] < next_chunk
    /\ \A w \in Workers : wpc[w] = "locked" => (w \in q_lock /\ pc_main \notin {"add", "close"})
    /\ \A n \in Linked : nodes[n].live /\ nodes[n].held_item = n /\ nodes[n].next # INDET

C6_Witness ==
    /\ pc_main = "add"
    /\ \E w \in Workers : wpc[w] = "got" /\ w_ret[w] # NULL /\ w_ret[w] < next_chunk

\* C7 as stated: when a worker has detected an error, the call returns a
\* negative status after the join.
C7_ErrorReported == (Returned /\ SomeWorkerError) => status < 0

\* C8 as stated: when the call ends after a worker error, the chunks handed to
\* the write-through primitive are a prefix of the grid in extraction order.
C8_Original == (Returned /\ SomeWorkerError) => WrittenIsPrefix

\* C8 amended: when the call ends after a worker error, each chunk origin of the
\* grid was handed to the write-through primitive at most once and no other
\* origin was; the written chunks are a prefix of the grid when T = 1.
C8_PartialWrites ==
    (Returned /\ SomeWorkerError)
        => /\ \A c \in Chunks : wt_calls[c] <= 1 /\ (c > N => wt_calls[c] = 0)
           /\ T = 1 => WrittenIsPrefix

C8_Witness ==
    /\ Returned /\ SomeWorkerError
    /\ T = 1 /\ N >= 2
    /\ wt_calls[1] = 1 /\ wt_calls[2] = 0

\* C9: when the source buffer is null or a non-OPTIONAL entry of the pipeline
\* cannot be resolved, the call fails at entry: no worker is started, nothing is
\* enqueued, no write-through call occurs and the file is unchanged.
C9_FailsBeforeWorkers ==
    (pc_main # "entry" /\ (buf_null \/ MandatoryUnresolved))
        => /\ pc_main = "done" /\ status = FAIL
           /\ \A w \in Workers : wpc[w] = "start"
           /\ q_elmts_added = 0 /\ q_head = NULL /\ sent = 0
           /\ \A c \in Chunks : wt_calls[c] = 0 /\ file[c] = NoChunk /\ items[c] = "none"

C9_Witness ==
    /\ pc_main = "done" /\ status = FAIL
    /\ ~buf_null
    /\ MandatoryUnresolved
    /\ N >= 1

\* C10 as stated: when only OPTIONAL entries of the pipeline cannot be resolved,
\* resolution records those slots as skip, the call succeeds and every chunk's
\* failure mask has those positions' bits set.
C10_OptionalSkipped ==
    (pc_main = "done" /\ ~buf_null /\ unresolved # {} /\ ~MandatoryUnresolved)
        => /\ status = SUCCEED
           /\ \A i \in unresolved :
                 /\ h5z_symbol[i + 1] = "skip"
                 /\ \A c \in 1 .. N : wt_calls[c] = 1 /\ (file[c] # NoChunk => i \in file[c].mask)

\* C11 as stated: the worker count get_thread_count hands to a call lies in
\* 1 .. Tmax, whatever H5_NTHREADS holds.
C11_ThreadCountInRange == tc.pc = "done" => (1 <= tc.ret /\ tc.ret <= Tmax)

\* C12: when H5_NTHREADS holds a character that is not a digit, at any position,
\* get_thread_count returns 1 and writes its diagnostic to stderr, whatever
\* digits came before; without such a character nothing is written.
C12_NonDigitFallsBack ==
    tc.pc = "done"
        => IF H5_NTHREADS.set /\ ~OnlyDigits(H5_NTHREADS.str)
           THEN tc.ret = 1 /\ tc.stderr = <<"H5_NTHREADS not valid.">>
           ELSE tc.stderr = <<>>

C12_Witness ==
    /\ tc.pc = "done"
    /\ H5_NTHREADS = [set |-> TRUE, str |-> <<49, 57, 97>>]
    /\ tc.ret = 1
    /\ tc.stderr # <<>>

\* C13 as stated: with H5_NTHREADS unset or empty get_thread_count returns 1,
\* and with a string of digits it returns the decimal value of the string.
C13_EnvDecimalValue ==
    tc.pc = "done"
        => /\ (~H5_NTHREADS.set \/ H5_NTHREADS.str = <<>>) => tc.ret = 1
           /\ (H5_NTHREADS.set /\ H5_NTHREADS.str # <<>> /\ OnlyDigits(H5_NTHREADS.str))
                 => tc.ret = DecimalValue(H5_NTHREADS.str)

\* what H5Z_pipeline does with position i of the pipeline of the call pl_args
PlSkipped(i) ==
    \/ i \in pl_args.filter_mask
    \/ pl_args.pline[i + 1].id \notin Registered(pl_args.table)
PlReturnedZero(i) == ~PlSkipped(i) /\ i \in pl_args.zeros

\* C14: after a successful write-direction run, bit i of the emitted mask is set
\* exactly when position i was skipped (excluded by the incoming mask, or its
\* filter not registered) or its filter returned zero, and no other bit is set;
\* a run fails only at a non-OPTIONAL position, never at an OPTIONAL one.
C14_MaskRecordsFailures ==
    pl_ret.pc = "done"
        => LET positions == 0 .. Len(pl_args.pline) - 1
           IN  /\ pl_ret.ret_value = SUCCEED
                     => /\ pl_ret.filter_mask \subseteq positions
                        /\ \A i \in positions :
                              i \in pl_ret.filter_mask <=> (PlSkipped(i) \/ PlReturnedZero(i))
               /\ pl_ret.ret_value = FAIL
                     => \E i \in positions :
                           /\ ~pl_args.pline[i + 1].optional
                           /\ i \notin pl_args.filter_mask
                           /\ \/ pl_args.pline[i + 1].id \notin Registered(pl_args.table)
                              \/ i \in pl_args.zeros /\ pl_args.cb # "CONT"
               /\ (\A i \in positions : pl_args.pline[i + 1].optional)
                     => pl_ret.ret_value = SUCCEED

C14_Witness ==
    /\ pl_ret.pc = "done"
    /\ pl_ret.ret_value = SUCCEED
    /\ Len(pl_args.pline) = 2
    /\ pl_args.pline[1].optional /\ PlReturnedZero(0)
    /\ ~PlSkipped(1) /\ 1 \notin pl_args.zeros
    /\ pl_ret.filter_mask = {0}
    /\ pl_ret.buf.enc # <<>>

\* C15: once resolution has finished no step of any thread changes the resolved
\* filter array or the pipeline descriptor, and whatever is registered or
\* unregistered in H5Z_table_g meanwhile, every chunk a worker writes was
\* encoded by the filters resolved at entry (those of the unmasked positions).
C15_ResolvedImmutable ==
    /\ [][pc_main # "entry" => (h5z_symbol' = h5z_symbol /\ pipeline' = pipeline)]_vars
    /\ [](\A c \in 1 .. N :
             file[c] # NoChunk => file[c].buf.enc = enc_from(pipeline, file[c].mask, 0))

C15_Witness ==
    /\ Returned
    /\ pipeline[1].id = "LZ4"
    /\ H5Z_table_g = TableOf(<<"ZSTD">>)
    /\ \A c \in 1 .. N : file[c].buf.enc = <<"LZ4">>

\* the queue holds no item; the queue was closed by a sentinel
QueueEmpty == Linked = {}
QueueClosed == sent >= 1

\* C16: a queue_get that holds the lock blocks exactly when the queue is empty
\* and not closed, returns the head item whenever an item is linked (closed or
\* not), and returns NULL exactly when the queue is empty and closed; a consumer
\* that leaves pthread_cond_wait, woken by a signal or spuriously, takes the
\* lock and tests again before it returns anything.
C16_GetBlocksOrDelivers ==
    [][\A w \in Workers :
          /\ (wpc[w] = "locked" /\ wpc'[w] # "locked")
                => IF ~QueueEmpty
                   THEN /\ wpc'[w] = "got"
                        /\ w_ret'[w] = nodes[q_head].held_item
                        /\ w_ret'[w] # NULL
                   ELSE IF QueueClosed
                        THEN wpc'[w] = "got" /\ w_ret'[w] = NULL
                        ELSE wpc'[w] = "waiting" /\ w \in q_wait' /\ w_ret'[w] = w_ret[w]
          /\ (wpc[w] = "waiting" /\ wpc'[w] # "waiting") => wpc'[w] = "woken"
          /\ (wpc[w] = "woken" /\ wpc'[w] # "woken") => wpc'[w] = "locked"
          /\ wpc'[w] = "got" /\ wpc[w] # "got" => wpc[w] = "locked"]_vars

C16_Witness ==
    /\ q_nelmts < -1
    /\ ~QueueEmpty
    /\ \E w \in Workers : wpc[w] = "woken"
    /\ \E w \in Workers : wpc[w] = "got" /\ w_ret[w] # NULL

\* the number of items queue_get has returned so far (the producer enqueues the
\* items 1, 2, ... in this order, so item k is the k-th enqueued)
Dequeued == q_elmts_added - Cardinality(Linked)

\* C18: the items linked in the queue are always the most recently enqueued
\* ones, chained from the head in enqueue order, and the k-th queue_get that
\* returns an item (in the order in which the dequeues hold the lock) returns
\* the k-th item enqueued, whichever consumer it is.
C18_Fifo ==
    /\ [](/\ Linked = (Dequeued + 1) .. q_elmts_added
          /\ Linked # {} => (q_head = Dequeued + 1 /\ q_tail = q_elmts_added)
          /\ \A n \in Linked :
                nodes[n].next = IF n = q_elmts_added THEN NULL ELSE n + 1)
    /\ [][\A w \in Workers :
             (wpc[w] = "locked" /\ wpc'[w] = "got" /\ w_ret'[w] # NULL)
                 => w_ret'[w] = Dequeued + 1]_vars

C18_Witness ==
    /\ Linked = {3}
    /\ \E w1, w2 \in Workers :
          /\ wpc[w1] = "got" /\ w_ret[w1] = 1
          /\ wpc[w2] = "got" /\ w_ret[w2] = 2
    /\ Dequeued = 2

\* C17 as stated: after the single sentinel was enqueued on an empty queue,
\* every consumer blocked in queue_get at that moment eventually gets NULL and
\* exits, however many consumers were waiting.
C17_SentinelWakesAll ==
    \A w \in Workers :
        (pc_main = "closed" /\ QueueEmpty /\ wpc[w] = "waiting") ~> (wpc[w] = "exited")

\* the threads that are between pthread_mutex_lock and pthread_mutex_unlock in
\* queue_add, queue_get or queue_get_elmts_added
InCritical ==
    (IF pc_main \in {"add", "close"} THEN {MAIN} ELSE {})
        \cup {w \in Workers : wpc[w] = "locked"}
        \cup (IF obs.pc = "locked" THEN {OBS} ELSE {})

\* a step that writes a field of the queue, or reads one into a return value,
\* is taken by the holder of the mutex, which then releases it
LockedAccess ==
    /\ <<q_head, q_tail, q_nelmts, q_elmts_added>>' # <<q_head, q_tail, q_nelmts, q_elmts_added>>
          => (q_lock # {} /\ q_lock' = {} /\ q_lock \subseteq {MAIN} \cup Workers)
    /\ obs'.ret_val # obs.ret_val => (q_lock = {OBS} /\ q_lock' = {})
    /\ \A w \in Workers : w_ret'[w] # w_ret[w] => (q_lock = {w} /\ q_lock' = {})

\* C19: at most one thread holds the mutex, the threads inside the three
\* functions' critical sections are exactly the holders, and every step that
\* writes head, tail, nelmts or elmts_added, or that reads them into a return
\* value, is taken by the thread holding the mutex, which releases it.
C19_QueueUnderMutex ==
    /\ [](Cardinality(q_lock) <= 1 /\ q_lock = InCritical)
    /\ [][LockedAccess]_vars

C19_Witness ==
    /\ obs.pc = "locked"
    /\ obs.ret_val = 1
    /\ q_elmts_added = 2
    /\ \E w \in Workers : wpc[w] = "woken"

\* C20 as stated: when malloc fails inside queue_add, queue_add gives the
\* failure back to its caller, which goes on running with it, and head, tail,
\* nelmts and elmts_added are as they were.
C20_AllocFailureReported ==
    [][(pc_main = "nomem" /\ pc_main' # "nomem")
          => /\ pc_main' \notin {"killed", "undefined"}
             /\ status' = FAIL
             /\ UNCHANGED <<q_head, q_tail, q_nelmts, q_elmts_added>>]_vars

\* a queue_add(q, NULL) that returns, on a queue that was closed before
Reclosed == pc_main \in {"close", "reclose"} /\ pc_main' \notin {"close", "reclose"} /\ sent >= 1

\* C21: a second or later queue_add(q, NULL), whenever it comes while the
\* workers drain the queue, links and unlinks nothing and leaves the queue
\* closed; on a closed queue a queue_get never blocks: it returns the items
\* that remain in enqueue order and NULL once none is left, as after one close.
C21_CloseIdempotent ==
    /\ [](QueueClosed => q_nelmts < 0)
    /\ [][Reclosed => (/\ UNCHANGED <<q_head, q_tail, q_elmts_added, nodes>>
                       /\ q_nelmts' < 0)]_vars
    /\ [][\A w \in Workers :
             (QueueClosed /\ wpc[w] = "locked" /\ wpc'[w] # "locked")
                 => /\ wpc'[w] = "got"
                    /\ w_ret'[w] = IF QueueEmpty THEN NULL ELSE Dequeued + 1]_vars

C21_Witness ==
    /\ sent = T + MaxExtraCloses
    /\ pc_main = "join"
    /\ Linked = {3}
    /\ q_nelmts = -2
    /\ \E w \in Workers : wpc[w] = "got" /\ w_ret[w] = 2

\* the number of work items whose queue_add has returned
ItemsEnqueued ==
    Cardinality({c \in Chunks : items[c] # "none"}) - (IF pc_main = "add" THEN 1 ELSE 0)

\* what a step may do to elmts_added and to the value queue_get_elmts_added returns
CountsItems ==
    /\ q_elmts_added' >= q_elmts_added
    /\ (pc_main = "close" /\ pc_main' # "close") => q_elmts_added' = q_elmts_added
    /\ (\E w \in Workers : wpc[w] = "locked" /\ wpc'[w] # "locked")
          => q_elmts_added' = q_elmts_added
    /\ (obs.pc = "locked" /\ obs'.pc = "idle")
          => (obs'.ret_val = ItemsEnqueued /\ obs'.ret_val >= obs.ret_val)

\* C22: elmts_added always equals the number of work items enqueued so far, a
\* sentinel enqueue and a dequeue leave it as it is, and the values successive
\* calls of queue_get_elmts_added return never decrease, each being the number
\* of work items enqueued when the call held the lock.
C22_ElmtsAddedMonotonic ==
    /\ [](q_elmts_added = ItemsEnqueued)
    /\ [][CountsItems]_vars

C22_Witness ==
    /\ obs.pc = "locked"
    /\ obs.ret_val = 1
    /\ q_elmts_added = 2
    /\ sent >= 1
    /\ Dequeued = 2

\* a step in which a queue_add of a work item returns: it is the producer's, for
\* the chunk that follows the last one enqueued, and no sentinel came before
EnqueuesNextChunk ==
    q_elmts_added' # q_elmts_added
        => /\ pc_main = "add"
           /\ q_elmts_added' = q_elmts_added + 1
           /\ next_chunk = q_elmts_added + 1 /\ next_chunk <= N
           /\ q_tail' = next_chunk /\ nodes'[next_chunk].held_item = next_chunk
           /\ next_chunk' = next_chunk + 1
           /\ sent = 0

\* a step in which a queue_add of the sentinel returns: every chunk was enqueued
EnqueuesSentinelLast ==
    sent' # sent
        => /\ sent' = sent + 1 /\ sent' <= T
           /\ q_elmts_added = N /\ q_elmts_added' = N
           /\ next_chunk = N + 1

\* C23: the producer enqueues the chunks 1, 2, ..., N in this order, each once
\* (the k-th work item enqueued is chunk k), it enqueues a sentinel only when
\* all N chunks are enqueued, at most T of them and T before it joins, and no
\* work item is enqueued once a sentinel was.
C23_ProducerOrder ==
    /\ [](/\ q_elmts_added = next_chunk - 1
          /\ \A c \in Chunks :
                items[c] # "none" <=> (c < next_chunk \/ (pc_main = "add" /\ c = next_chunk))
          /\ (sent >= 1 \/ pc_main = "close") => (next_chunk = N + 1 /\ q_elmts_added = N)
          /\ sent <= T
          /\ pc_main = "join" => sent = T)
    /\ [][EnqueuesNextChunk /\ EnqueuesSentinelLast]_vars

C23_Witness ==
    /\ pc_main = "join"
    /\ N = 3 /\ T = 2
    /\ sent = 2
    /\ q_elmts_added = 3
    /\ \E w \in Workers : wpc[w] = "got" /\ w_ret[w] = 3

\* the invocations of the call pl_args in which the filter returned zero
ZeroReturns == {k \in 1 .. Len(pl_ret.calls) : pl_ret.calls[k].new_nbytes = 0}
PlOptional(i) == pl_args.pline[i + 1].optional
PlWrite == pl_ret.pc = "done" /\ H5Z_FLAG_REVERSE \notin pl_args.flags

\* the write loop goes on behind invocation k: the positions that follow are
\* passed over while excluded by the incoming mask or OPTIONAL and unregistered,
\* the first other one is invoked with the nbytes invocation k left, or fails
\* the call when its filter is not registered; with none left the call succeeds
PlGoesOn(k) ==
    LET i == pl_ret.calls[k].idx
        rest == {j \in i + 1 .. Len(pl_args.pline) - 1 :
                    /\ j \notin pl_args.filter_mask
                    /\ pl_args.pline[j + 1].id \in Registered(pl_args.table) \/ ~PlOptional(j)}
    IN  IF rest = {}
        THEN /\ k = Len(pl_ret.calls)
             /\ pl_ret.ret_value = SUCCEED
             /\ pl_ret.nbytes = pl_ret.calls[k].nbytes_out
        ELSE LET j == CHOOSE m \in rest : \A n \in rest : m <= n
             IN  IF pl_args.pline[j + 1].id \in Registered(pl_args.table)
                 THEN /\ k < Len(pl_ret.calls)
                      /\ pl_ret.calls[k + 1].idx = j
                      /\ pl_ret.calls[k + 1].nbytes = pl_ret.calls[k].nbytes_out
                 ELSE k = Len(pl_ret.calls) /\ pl_ret.ret_value = FAIL

\* C24 as stated: on the write path a filter returning zero gets its mask bit
\* set and the remaining positions are run; nbytes is left unchanged when the
\* filter is OPTIONAL, else nbytes is restored to the buffer capacity and the
\* failure is recorded as fatal (the call reports it).
C24_Original ==
    PlWrite
        => \A k \in ZeroReturns :
              LET c == pl_ret.calls[k]
              IN  /\ c.idx \in pl_ret.failed
                  /\ PlGoesOn(k)
                  /\ IF PlOptional(c.idx) THEN c.nbytes_out = c.nbytes
                     ELSE c.nbytes_out = c.buf_size /\ pl_ret.ret_value = FAIL

\* C24 amended: on the write path of H5Z_pipeline, when the filter at position
\* i returns zero: if it is OPTIONAL, bit i is set in failed, nbytes is left
\* unchanged and the loop goes on; if it is not OPTIONAL and there is no callback
\* or the callback returns H5Z_CB_FAIL, the call fails at once: no later filter
\* is invoked, bit i is not set, *filter_mask and nbytes stay as they were; if it
\* is not OPTIONAL and the callback returns H5Z_CB_CONT, bit i is set, nbytes is
\* restored to *buf_size and the loop goes on, and nothing fatal is recorded.
C24_ZeroReturn ==
    PlWrite
        => \A k \in ZeroReturns :
              LET c == pl_ret.calls[k]
              IN  IF PlOptional(c.idx)
                  THEN c.idx \in pl_ret.failed /\ c.nbytes_out = c.nbytes /\ PlGoesOn(k)
                  ELSE IF pl_args.cb \in {"none", "FAIL"}
                       THEN /\ pl_ret.ret_value = FAIL
                            /\ k = Len(pl_ret.calls)
                            /\ c.idx \notin pl_ret.failed
                            /\ pl_ret.filter_mask = pl_args.filter_mask
                            /\ pl_ret.nbytes = c.nbytes /\ c.nbytes_out = c.nbytes
                       ELSE /\ c.idx \in pl_ret.failed
                            /\ c.nbytes_out = c.buf_size
                            /\ PlGoesOn(k)
                            /\ (\A j \in 0 .. Len(pl_args.pline) - 1 :
                                   pl_args.pline[j + 1].id \in Registered(pl_args.table))
                                  => pl_ret.ret_value = SUCCEED

C24_Witness ==
    /\ PlWrite
    /\ Len(pl_args.pline) = 2
    /\ pl_args.cb = "none"
    /\ ~PlOptional(0) /\ 1 \in ZeroReturns /\ pl_ret.calls[1].idx = 0
    /\ pl_args.pline[2].id \in Registered(pl_args.table) /\ 1 \notin pl_args.filter_mask
    /\ Len(pl_ret.calls) = 1
    /\ pl_ret.ret_value = FAIL

PlPositions == 0 .. Len(pl_args.pline) - 1
PlUnregistered(i) == pl_args.pline[i + 1].id \notin Registered(pl_args.table)
PlInvoked(i) == \E k \in 1 .. Len(pl_ret.calls) : pl_ret.calls[k].idx = i
\* the write loop ends at position j: a non-OPTIONAL filter is not registered,
\* or returns zero with no callback that says to continue
PlEndsAt(j) ==
    /\ j \notin pl_args.filter_mask
    /\ ~PlOptional(j)
    /\ PlUnregistered(j) \/ (j \in pl_args.zeros /\ pl_args.cb # "CONT")
\* the write loop gets to position i
PlReached(i) == \A j \in 0 .. i - 1 : ~PlEndsAt(j)

\* C25: on the write path, at a position the loop gets to whose mask bit is
\* clear and whose filter is not registered, no filter is invoked; when the
\* entry is OPTIONAL its bit is set in failed (and in the mask of a successful
\* call) and every later position the loop gets to that is not skipped has its
\* filter invoked; when it is not OPTIONAL the call returns FAIL, with
\* *filter_mask as on entry, and no filter of a later position is invoked.
C25_UnregisteredFilter ==
    PlWrite
        => \A i \in PlPositions :
              (PlReached(i) /\ i \notin pl_args.filter_mask /\ PlUnregistered(i))
                  => /\ ~PlInvoked(i)
                     /\ IF PlOptional(i)
                        THEN /\ i \in pl_ret.failed
                             /\ pl_ret.ret_value = SUCCEED => i \in pl_ret.filter_mask
                             /\ \A j \in i + 1 .. Len(pl_args.pline) - 1 :
                                   (PlReached(j) /\ ~PlSkipped(j)) => PlInvoked(j)
                        ELSE /\ pl_ret.ret_value = FAIL
                             /\ pl_ret.filter_mask = pl_args.filter_mask
                             /\ \A j \in i + 1 .. Len(pl_args.pline) - 1 : ~PlInvoked(j)

C25_Witness ==
    /\ PlWrite
    /\ Len(pl_args.pline) = 2
    /\ PlOptional(0) /\ PlUnregistered(0) /\ 0 \notin pl_args.filter_mask
    /\ PlInvoked(1) /\ ~PlInvoked(0)
    /\ pl_ret.ret_value = SUCCEED
    /\ pl_ret.filter_mask = {0}
    /\ pl_ret.buf.enc = <<pl_args.pline[2].id>>

PlDone == pl_ret.pc = "done"
PlRead == PlDone /\ H5Z_FLAG_REVERSE \in pl_args.flags

\* C26: the positions whose filter H5Z_pipeline invokes come in increasing
\* order in a write and in decreasing order with H5Z_FLAG_REVERSE, each at most
\* once; in both directions a position whose bit is set in the incoming mask is
\* never invoked and its bit is set in *filter_mask when the call returns.
C26_InvocationOrder ==
    PlDone
        => /\ \A k \in 1 .. Len(pl_ret.calls) - 1 :
                 IF PlRead THEN pl_ret.calls[k].idx > pl_ret.calls[k + 1].idx
                 ELSE pl_ret.calls[k].idx < pl_ret.calls[k + 1].idx
           /\ \A k \in 1 .. Len(pl_ret.calls) : pl_ret.calls[k].idx \in PlPositions
           /\ \A i \in PlPositions \cap pl_args.filter_mask :
                 ~PlInvoked(i) /\ i \in pl_ret.filter_mask
           /\ pl_ret.ret_value = SUCCEED
                 => \A i \in PlPositions \ pl_args.filter_mask : PlInvoked(i) \/ PlUnregistered(i)

C26_Witness ==
    /\ PlRead
    /\ Len(pl_args.pline) = 2
    /\ Len(pl_ret.calls) = 2
    /\ pl_ret.calls[1].idx = 1 /\ pl_ret.calls[2].idx = 0
    /\ pl_ret.ret_value = SUCCEED
    /\ pl_ret.buf.enc = <<>>
    /\ pl_args.pline[1].id # pl_args.pline[2].id

\* C27: when H5Z_pipeline returns FAIL, in a write or in a read, *filter_mask
\* holds the value it had on entry, whatever bits the call had collected in
\* failed; when it returns SUCCEED *filter_mask holds failed.
C27_MaskKeptOnFailure ==
    PlDone
        => /\ pl_ret.ret_value \in {SUCCEED, FAIL}
           /\ pl_ret.ret_value = FAIL => pl_ret.filter_mask = pl_args.filter_mask
           /\ pl_ret.ret_value = SUCCEED => pl_ret.filter_mask = pl_ret.failed

C27_Witness ==
    /\ PlRead
    /\ pl_ret.ret_value = FAIL
    /\ pl_ret.failed = {1}
    /\ pl_args.filter_mask = {}
    /\ pl_ret.filter_mask = {}

\* the directory the plugins are looked up in: the value of HDF5_PLUGIN_PATH
\* when the variable is set, else the directory compiled in
AfDirectory == IF af_args.env # "unset" THEN af_args.env ELSE "/usr/local/hdf5/lib/plugin"
\* the call has returned success in mode 'w'
AfSucceeded == af_ret.pc = "done" /\ af_ret.ret_value = SUCCEED /\ af_args.mode = "w"
\* slot i holds what position i of the pipeline resolves to
AfSlotFilled(i) ==
    LET id == af_args.pipeline[i].id
    IN  /\ af_ret.h5z_symbol[i] # "NULL"
        /\ id \in {"DEFLATE", "LZ4", "ZSTD"}
        /\ id = "DEFLATE" => af_ret.h5z_symbol[i] = "H5Z_DEFLATE"
        /\ id = "LZ4" => /\ af_ret.h5z_symbol[i] = "H5Z_LZ4"
                         /\ af_args.fs[<<AfDirectory, "/libh5lz4.so.0">>] = "ok"
        /\ id = "ZSTD" => /\ af_ret.h5z_symbol[i] = "H5Z_ZSTD"
                          /\ af_args.fs[<<AfDirectory, "/libh5zstd.so.0">>] = "ok"

\* C28: when H5Z__assign_filter returns success in mode 'w', h5z_symbol has one
\* slot per pipeline position and every slot is filled in pipeline order:
\* deflate with the built-in class, LZ4 and ZSTD with the symbol of the shared
\* object found under HDF5_PLUGIN_PATH if it is set, else under the default
\* directory; no slot is left unassigned
C28_AllSlotsAssigned ==
    AfSucceeded =>
        /\ Len(af_ret.h5z_symbol) = Len(af_args.pipeline)
        /\ \A i \in 1 .. Len(af_args.pipeline) : AfSlotFilled(i)

\* a successful call on a pipeline of deflate and a plugin filter whose shared
\* object is under HDF5_PLUGIN_PATH only
C28_Witness ==
    /\ AfSucceeded
    /\ af_args.env = "/opt/plugin"
    /\ \A l \in LibNames : af_args.fs[<<"/usr/local/hdf5/lib/plugin", l>>] = "nolib"
    /\ Len(af_args.pipeline) = 2
    /\ af_args.pipeline[1].id = "ZSTD"
    /\ af_args.pipeline[2].id = "DEFLATE"
    /\ af_ret.h5z_symbol = <<"H5Z_ZSTD", "H5Z_DEFLATE">>
H5Z_table_used_g == Len(H5Z_table_g)
\* no two used entries of the table carry the same id
OneEntryPerId ==
    \A i, j \in 1 .. H5Z_table_used_g : H5Z_table_g[i].id = H5Z_table_g[j].id => i = j
\* the step is a successful registration of a class whose id is in the table
RegistersAgain ==
    /\ api'.fn \in {"H5Z_register", "H5Zregister"}
    /\ api'.ret_value = SUCCEED
    /\ api'.id \in Registered(H5Z_table_g)
\* the entry of that id now holds the class given, nothing else has changed
ReplacedInPlace ==
    /\ Len(H5Z_table_g') = H5Z_table_used_g
    /\ H5Z_table_alloc_g' = H5Z_table_alloc_g
    /\ \A i \in 1 .. H5Z_table_used_g :
          IF H5Z_table_g[i].id = api'.id
          THEN H5Z_table_g'[i] = [id |-> api'.id, filter |-> api'.filter]
          ELSE H5Z_table_g'[i] = H5Z_table_g[i]

\* C29: whatever calls of H5Z_register, H5Z__unregister and H5Z_filter_avail
\* (and of the public functions on top of them) were made, the filter table
\* holds at most one entry per filter id and H5Z_table_used_g is at most
\* H5Z_table_alloc_g; registering an id that is registered replaces its entry
\* in place and leaves the used count and the other entries as they were
C29_TableWellFormed ==
    /\ [](OneEntryPerId /\ H5Z_table_used_g <= H5Z_table_alloc_g)
    /\ [][RegistersAgain => ReplacedInPlace]_vars

\* the table was extended past H5Z_MAX_NFILTERS entries and the last call has
\* replaced the class of its first entry by one with another callable
C29_Witness ==
    /\ H5Z_table_used_g > H5Z_MAX_NFILTERS
    /\ H5Z_table_alloc_g = 2 * H5Z_MAX_NFILTERS
    /\ api.fn = "H5Z_register"
    /\ api.ret_value = SUCCEED
    /\ H5Z_table_g[1] = [id |-> "LZ4", filter |-> "H5Z_filter_new"]
    /\ api.id = "LZ4"
    /\ api.filter = "H5Z_filter_new"
    /\ H5Z_table_g[2].filter = H5Z_table_g[2].id

\* the call made is one H5Zregister has to refuse
RegisterRefused(a) ==
    /\ a.fn = "H5Zregister"
    /\ \/ a.struct = "NULL"
       \/ a.id \in {"NEGATIVE", "TOOBIG"}
       \/ a.id \in {"DEFLATE", "SHUFFLE"}
       \/ a.filter = "NULL"
\* the call made is one H5Zunregister has to refuse
UnregisterRefused(a) ==
    /\ a.fn = "H5Zunregister"
    /\ a.id \in {"NEGATIVE", "TOOBIG", "DEFLATE", "SHUFFLE"}

Unregisters == api'.fn = "H5Z__unregister"
\* the entries of the table other than the one of the id, in table order
WithoutId(table, id) == SelectSeq(table, LAMBDA e : e.id # id)

PlineIds == {dcpl_pline.filter[i].id : i \in 1 .. dcpl_pline.nused}
\* the step is a call of H5Z_modify with a filter that is not in the pipeline
ModifiesAbsent == edit'.fn = "H5Z_modify" /\ edit'.filter \notin PlineIds

\* C32: H5Z_modify called with a filter id that is not in the pipeline fails
\* ("filter not in pipeline") and leaves the pipeline as it was; it does not
\* write to the entry at index nused or behind it
C32_ModifyAbsentFails ==
    [][ModifiesAbsent =>
          /\ edit'.returned
          /\ edit'.ret_value = FAIL
          /\ edit'.ub = "none"
          /\ dcpl_pline' = dcpl_pline]_vars

\* a step in which H5Z_append is called
Appends == edit'.fn = "H5Z_append"
\* the entry H5Z_append was asked to add
AppendedEntry == [id |-> edit'.filter, flags |-> edit'.flags, cd_values |-> edit'.cd_values]
\* the entries the pipeline had before the call say after it what they said
EarlierEntriesKept ==
    \A i \in 0 .. dcpl_pline.nused - 1 : PlineEntry(dcpl_pline', i) = PlineEntry(dcpl_pline, i)

\* C33: H5Z_append fails without changing the pipeline when nused >=
\* H5Z_MAX_NFILTERS; otherwise it stores the new filter (id, flags, cd_values)
\* at index nused, increments nused by exactly one and leaves the ids, flags
\* and cd_values of all earlier entries unchanged, also when the filter array
\* is reallocated
C33_AppendEffect ==
    [][Appends =>
          IF dcpl_pline.nused >= H5Z_MAX_NFILTERS
          THEN edit'.ret_value = FAIL /\ dcpl_pline' = dcpl_pline
          ELSE /\ dcpl_pline'.nused = dcpl_pline.nused + 1
               /\ PlineEntry(dcpl_pline', dcpl_pline.nused) = AppendedEntry
               /\ EarlierEntriesKept]_vars


\* C34: every pipeline that can be built by a sequence of successful
\* H5Z_append calls satisfies the entry assertion of H5Z_pipeline,
\* pline->nused < H5Z_MAX_NFILTERS
C34_AppendedBelowLimit == dcpl_pline.nused < H5Z_MAX_NFILTERS


\* a step in which H5Z_delete is called
Deletes == edit'.fn = "H5Z_delete"
\* a sequence of entries without the first one whose id is the given one
WithoutFirst(entries, id) ==
    LET k == CHOOSE i \in 1 .. Len(entries) :
                 entries[i].id = id /\ \A j \in 1 .. i - 1 : entries[j].id # id
    IN  SubSeq(entries, 1, k - 1) \o SubSeq(entries, k + 1, Len(entries))

\* C35: H5Z_delete(pline, f) with f present removes the first entry whose id
\* is f, decrements nused by one and keeps the other entries in their relative
\* order; with f absent from a non-empty pipeline it fails and changes
\* nothing; on an empty pipeline it succeeds without change
C35_DeleteEffect ==
    [][Deletes =>
          /\ edit'.returned
          /\ IF dcpl_pline.nused = 0
             THEN edit'.ret_value = SUCCEED /\ dcpl_pline' = dcpl_pline
             ELSE IF edit'.filter \in PlineIds
                  THEN /\ edit'.ret_value = SUCCEED
                       /\ dcpl_pline'.nused = dcpl_pline.nused - 1
                       /\ PlineEntries(dcpl_pline')
                             = WithoutFirst(PlineEntries(dcpl_pline), edit'.filter)
                  ELSE edit'.ret_value = FAIL /\ dcpl_pline' = dcpl_pline]_vars


\* a step in which H5Z_filter_avail is called
AsksAvail == api'.fn = "H5Z_filter_avail"
\* the id asked for is in the table when the call is made
AlreadyRegistered == api'.id \in Registered(H5Z_table_g)
\* H5PL_load finds a plugin for the id
PluginLoadable == "plugin" \in api'.env
\* H5Z_register of a new class cannot grow the full table
RegistrationFails == "nomem" \in api'.env /\ Len(H5Z_table_g) >= H5Z_table_alloc_g
TableUnchanged == UNCHANGED <<H5Z_table_g, H5Z_table_alloc_g>>

\* C36 as stated: H5Z_filter_avail(id) returns true exactly when id is already
\* in the filter table or a plugin for id can be loaded; whenever it returns
\* true the id is registered afterwards, and when it returns false the table
\* is unchanged
C36_AvailExactly ==
    [][AsksAvail =>
          /\ api'.ret_value = 1 <=> (AlreadyRegistered \/ PluginLoadable)
          /\ api'.ret_value = 1 => api'.id \in Registered(H5Z_table_g')
          /\ api'.ret_value = 0 => TableUnchanged]_vars

\* C36: H5Z_filter_avail(id) returns true exactly when id is already in the
\* filter table, or a plugin for id can be loaded and registering the loaded
\* class succeeds; it returns a negative value exactly when a plugin for an id
\* that is not in the table can be loaded and registering it fails, and the
\* table is then unchanged; whenever it returns true the id is registered
\* afterwards, and when it returns false the table is unchanged
C36_FilterAvail ==
    [][AsksAvail =>
          /\ api'.ret_value \in {1, 0, FAIL}
          /\ api'.ret_value = 1 <=>
                (AlreadyRegistered \/ (PluginLoadable /\ ~RegistrationFails))
          /\ api'.ret_value = FAIL <=>
                (~AlreadyRegistered /\ PluginLoadable /\ RegistrationFails)
          /\ api'.ret_value = FAIL => TableUnchanged
          /\ api'.ret_value = 1 => api'.id \in Registered(H5Z_table_g')
          /\ api'.ret_value = 0 => TableUnchanged]_vars

\* a plugin for a filter that is not in the full table was loaded, registering
\* it failed and the call returned a negative value
C36_Witness ==
    /\ api.fn = "H5Z_filter_avail"
    /\ api.ret_value = FAIL
    /\ api.env = {"plugin", "nomem"}
    /\ api.id \notin Registered(H5Z_table_g)
    /\ Len(H5Z_table_g) = H5Z_table_alloc_g
    /\ Len(H5Z_table_g) >= H5Z_MAX_NFILTERS


\* the items a queue_get has taken out of the queue: their node was allocated
\* when they were handed to queue_add and has been freed since
TakenOut == {c \in Chunks : items[c] # "none" /\ ~nodes[c].live}

\* C37: in every reachable state in which no sentinel has yet been enqueued,
\* q->nelmts equals the number of nodes linked from q->head, q->head is NULL
\* exactly when q->nelmts is 0, and elmts_added equals nelmts plus the number
\* of items dequeued so far
C37_CountsAgree ==
    sent = 0 =>
        /\ q_nelmts = Cardinality(Linked)
        /\ q_head = NULL <=> q_nelmts = 0
        /\ q_elmts_added = q_nelmts + Cardinality(TakenOut)

\* before any sentinel: three items were added, one was taken out, two are linked
C37_Witness ==
    /\ sent = 0
    /\ q_elmts_added = 3
    /\ Cardinality(TakenOut) = 1
    /\ q_nelmts = 2
    /\ Cardinality(Linked) = 2


\* C38: the closed state is a latch: once a sentinel has been enqueued, for
\* every later sequence of queue_add and queue_get calls (further real items
\* included) a queue_get that holds the lock never goes to wait, returns the
\* head item while one is linked (so every linked item can be returned), and
\* returns NULL whenever the list is empty
C38_ClosedIsLatch ==
    [][\A w \in Workers :
          (QueueClosed /\ wpc[w] = "locked" /\ wpc'[w] # "locked") =>
              /\ wpc'[w] = "got"
              /\ w_ret'[w] = IF QueueEmpty THEN NULL ELSE nodes[q_head].held_item]_vars

====
